---------------------------- MODULE Spec2Model ----------------------------
(***************************************************************************)
(* OptiPix: a Figma plugin controller.  The module models                  *)
(*   - the selection scanner (isImageCapableNode, getUniqueImageCandidates)*)
(*     of the recursive variant (src/unnamed/part_001) and of the flat     *)
(*     variant (src/code.ts);                                              *)
(*   - the byte sniffing of sendAllImageDataToUI and the file name of      *)
(*     webp-export-complete;                                               *)
(*   - the message router figma.ui.onmessage with its progress counter,    *)
(*     the debounced selectionchange listener and handleSelectionChange.   *)
(* Strings of the program that the code inspects character by character    *)
(* are sequences of one-character strings; byte arrays are sequences of    *)
(* numbers 0..255.                                                         *)
(***************************************************************************)
EXTENDS Integers, Sequences, FiniteSets, TLC

\* ------------------------------------------------------------------ bounds
\* Number of nodes of the document.
MaxNodes == 3
\* Longest selection handed to the scanner.
MaxSel == 2
\* Longest fill list of the swept node.
MaxFills == 2
\* Most handler executions suspended at an await at one time.
MaxFrames == 1
\* Most process-image-data messages and suspended applies in flight.
MaxPending == 2
\* Cap of the progress counter's completed count.
MaxCount == 3
\* Most nodes the user deletes in one run.
MaxRemoved == 1

\* --------------------------------------------------------------- the host
\* figma.mixed / a missing property / null, as markers of a fills value.
NullHash == "null"
Hashes == {"h1", "h2"}

AllowedTypes ==
    {"RECTANGLE", "ELLIPSE", "POLYGON", "STAR", "VECTOR", "TEXT", "FRAME",
     "COMPONENT", "INSTANCE"}

\* The node kinds of the model: the allow-list, GROUP (children, no fills)
\* and LINE (fills, width, height and resize, but not on the allow-list).
NodeTypes == AllowedTypes \cup {"GROUP", "LINE"}

ContainerTypes == {"FRAME", "COMPONENT", "INSTANCE", "GROUP"}

\* The properties a node of each kind exposes ('x' in node).
PropsOf(type) ==
    (IF type = "GROUP" THEN {} ELSE {"fills"})
    \cup {"width", "height", "resize"}
    \cup (IF type \in ContainerTypes THEN {"children"} ELSE {})

NodeIds == 1 .. MaxNodes

ImageFill(h) == [type |-> "IMAGE", imageHash |-> h]
SolidFill == [type |-> "SOLID", imageHash |-> NullHash]

ArrayFills(list) == [kind |-> "array", list |-> list]
MixedFills == [kind |-> "mixed", list |-> << >>]
AbsentFills == [kind |-> "absent", list |-> << >>]


NullNode == [type |-> "null", fills |-> AbsentFills, children |-> << >>]

\* ---------------------------------------------------------------- state
VARIABLES
    nodes,        \* the document: node id -> [type, fills, children]
    live,         \* the ids figma.getNodeByIdAsync still resolves
    selection,    \* figma.currentPage.selection, a sequence of node ids
    scanResult,   \* what the last call of the scanner returned
    totalImagesToProcess,          \* the progress counter: total
    processedImageCount,           \* the progress counter: completed
    selectionChangeDebounceTimer,  \* 0 (null) or the id setTimeout returned
    timers,       \* the host's pending timeouts: records [id, remaining]
    sinceEvent,   \* ms since the last raw selectionchange event (saturating)
    launched,     \* whether the host has delivered the run event
    frames,       \* the handler executions suspended at an await, oldest first
    uiPending,    \* process-image-data messages the UI has not answered yet
    emitted,      \* what the last step posted and notified, in order
    last,         \* the handler step that ran last
    hist          \* history of the current batch and of the current burst

\* ------------------------------------------------------------ the scanner
IsImageFillWithHash(fill) == fill.type = "IMAGE" /\ fill.imageHash # NullHash

\* fills.filter(fill => fill.type === 'IMAGE' && fill.imageHash !== null)
RECURSIVE FilterImageFills(_)
FilterImageFills(list) ==
    IF list = << >> THEN << >>
    ELSE IF IsImageFillWithHash(Head(list))
         THEN << Head(list) >> \o FilterImageFills(Tail(list))
         ELSE FilterImageFills(Tail(list))

isImageCapableNode(node) ==
    IF ~("fills" \in PropsOf(node.type)) \/ ~("width" \in PropsOf(node.type))
       \/ ~("height" \in PropsOf(node.type))
    THEN FALSE
    ELSE IF node.fills.kind = "mixed" THEN FALSE
    ELSE IF node.fills.kind # "array" THEN FALSE
    ELSE IF ~(node.type \in AllowedTypes) THEN FALSE
    ELSE \E i \in 1 .. Len(node.fills.list) : IsImageFillWithHash(node.fills.list[i])

\* `${node.id}_${fill.imageHash}`: node ids ("12:34") and hashes (hex) hold
\* no '_', so the key determines the pair and is modelled as the pair.
\* A slip: the key is built from the node id alone.
uniqueKey_NodeOnly(id, hash) == << id, NullHash >>

uniqueKey(id, hash) == << id, hash >>

MapHas(map, key) == \E i \in 1 .. Len(map) : map[i].key = key

NewCandidate(id, hash) == [nodeId |-> id, imageHash |-> hash, fileType |-> "PNG"]

\* for (const fill of imageFills) { if (!map.has(key)) map.set(key, {...}) }
RECURSIVE AddImageFills(_, _, _)
\* A slip: the has() test is missing, every image fill is recorded.
AddImageFills_NoHasTest(map, id, imageFills) ==
    IF imageFills = << >> THEN map
    ELSE LET key == uniqueKey(id, Head(imageFills).imageHash)
         IN AddImageFills(
                Append(map, [key |-> key,
                             value |-> NewCandidate(id, Head(imageFills).imageHash)]),
                id, Tail(imageFills))

AddImageFills(map, id, imageFills) ==
    IF imageFills = << >> THEN map
    ELSE LET key == uniqueKey(id, Head(imageFills).imageHash)
         IN AddImageFills(
                IF MapHas(map, key) THEN map
                ELSE Append(map, [key |-> key,
                                  value |-> NewCandidate(id, Head(imageFills).imageHash)]),
                id, Tail(imageFills))

\* function traverse(node) of the recursive variant, with the map threaded.
RECURSIVE traverse(_, _)
RECURSIVE traverseChildren(_, _)
\* A slip: the children are visited before the node's own fills are recorded.
traverse_ChildrenFirst(map, id) ==
    LET node == nodes[id]
        below == IF "children" \in PropsOf(node.type)
                 THEN traverseChildren(map, node.children)
                 ELSE map
    IN IF isImageCapableNode(node)
       THEN AddImageFills(below, id, FilterImageFills(node.fills.list))
       ELSE below

traverse(map, id) ==
    LET node == nodes[id]
        own == IF isImageCapableNode(node)
               THEN AddImageFills(map, id, FilterImageFills(node.fills.list))
               ELSE map
    IN IF "children" \in PropsOf(node.type)
       THEN traverseChildren(own, node.children)
       ELSE own

traverseChildren(map, ids) ==
    IF ids = << >> THEN map
    ELSE traverseChildren(traverse(map, Head(ids)), Tail(ids))

\* Array.from(uniqueImageMap.values())
MapValues(map) == [i \in 1 .. Len(map) |-> map[i].value]

getUniqueImageCandidates(sel) == MapValues(traverseChildren(<< >>, sel))

\* The flat variant of src/code.ts: the selected nodes only, a capability
\* test and Array.isArray, no allow-list.
RECURSIVE flatLoop(_, _)
RECURSIVE flatLoop_SizeFloor(_, _)
\* A slip: a test for a positive size is added to the capability test.
flatLoop_SizeFloor(map, ids) ==
    IF ids = << >> THEN map
    ELSE LET node == nodes[Head(ids)]
             own == IF "fills" \in PropsOf(node.type) /\ node.fills.kind = "array"
                       /\ "width" \in PropsOf(node.type) /\ node.width > 0
                       /\ "height" \in PropsOf(node.type) /\ node.height > 0
                    THEN AddImageFills(map, Head(ids), FilterImageFills(node.fills.list))
                    ELSE map
         IN flatLoop_SizeFloor(own, Tail(ids))

flatLoop(map, ids) ==
    IF ids = << >> THEN map
    ELSE LET node == nodes[Head(ids)]
             own == IF "fills" \in PropsOf(node.type) /\ node.fills.kind = "array"
                       /\ "width" \in PropsOf(node.type)
                       /\ "height" \in PropsOf(node.type)
                    THEN AddImageFills(map, Head(ids), FilterImageFills(node.fills.list))
                    ELSE map
         IN flatLoop(own, Tail(ids))

getUniqueImageCandidatesFlat(sel) == MapValues(flatLoop(<< >>, sel))

\* ------------------------------------------------ apply-step eligibility
\* A slip: the allow-list is the only test.
isImageOptimizableNode_TypeOnly(node) == node.type \in AllowedTypes

isImageOptimizableNode(node) ==
    IF node = NullNode THEN FALSE
    ELSE IF ~("fills" \in PropsOf(node.type)) \/ node.fills.kind = "mixed"
            \/ node.fills.kind # "array"
    THEN FALSE
    ELSE IF ~("resize" \in PropsOf(node.type)) THEN FALSE
    ELSE IF ~(node.type \in AllowedTypes) THEN FALSE
    ELSE \E i \in 1 .. Len(node.fills.list) : IsImageFillWithHash(node.fills.list[i])

\* ------------------------------------------------- scanner specifications
scanVars == << nodes, live, selection, scanResult >>

NoScan == [by |-> "none", list |-> << >>]

\* The controller's variables, which the scanner neither reads nor writes.
otherVars ==
    << totalImagesToProcess, processedImageCount, selectionChangeDebounceTimer,
       timers, sinceEvent, launched, frames, uiPending, emitted, last, hist >>

\* The controller as the module's top level leaves it.
InitRouterIdle ==
    /\ totalImagesToProcess = 0
    /\ processedImageCount = 0
    /\ selectionChangeDebounceTimer = 0
    /\ timers = {}
    /\ sinceEvent = 0
    /\ launched = FALSE
    /\ frames = << >>
    /\ uiPending = << >>
    /\ emitted = << >>
    /\ last = [handler |-> "none", outcome |-> "none"]
    /\ hist = [batch |-> 0, delivered |-> 0, notices |-> 0, failed |-> 0,
               clean |-> FALSE]

\* Sequences of distinct node ids, at most MaxSel long.
Selections ==
    { s \in UNION { [1 .. k -> NodeIds] : k \in 0 .. MaxSel } :
        \A i, j \in 1 .. Len(s) : i # j => s[i] # s[j] }

\* The children of n under a parent map, in increasing id order.
RECURSIVE ChildrenFrom(_, _, _)
ChildrenFrom(parent, n, k) ==
    IF k > MaxNodes THEN << >>
    ELSE (IF parent[k] = n THEN << k >> ELSE << >>) \o ChildrenFrom(parent, n, k + 1)

\* The node shapes of the tree documents: a group, a frame with an image, a
\* rectangle with the same image twice, a rectangle with two images around a
\* solid paint, a text node with mixed fills.
NodeShapes ==
    { [type |-> "GROUP", fills |-> AbsentFills],
      [type |-> "FRAME", fills |-> ArrayFills(<< ImageFill("h1") >>)],
      [type |-> "RECTANGLE", fills |-> ArrayFills(<< ImageFill("h1"), ImageFill("h1") >>)],
      [type |-> "RECTANGLE",
       fills |-> ArrayFills(<< ImageFill("h1"), SolidFill, ImageFill("h2") >>)],
      [type |-> "TEXT", fills |-> MixedFills] }

\* Forests over NodeIds: a parent has a smaller id and is a container.
TreeDocuments ==
    { [n \in NodeIds |->
          [type |-> shape[n].type, fills |-> shape[n].fills,
           children |-> ChildrenFrom(parent, n, 1)]] :
        << parent, shape >> \in
            { ps \in [NodeIds -> 0 .. MaxNodes] \X [NodeIds -> NodeShapes] :
                \A n \in NodeIds :
                    /\ ps[1][n] < n
                    /\ ps[1][n] # 0 => ps[2][ps[1][n]].type \in ContainerTypes } }

\* Fill lists of at most MaxFills paints.
FillKinds == { ImageFill(h) : h \in Hashes \cup {NullHash} } \cup {SolidFill}

FillLists == UNION { [1 .. k -> FillKinds] : k \in 0 .. MaxFills }

FillsOfType(type) ==
    IF "fills" \in PropsOf(type)
    THEN { ArrayFills(l) : l \in FillLists } \cup {MixedFills}
    ELSE {AbsentFills}

\* Documents that sweep node 1 over every kind and every fills value; the
\* other nodes are image rectangles, children of node 1 when it is a container.
SweepDocuments ==
    { [n \in NodeIds |->
          IF n = 1
          THEN [type |-> tf[1], fills |-> tf[2],
                children |-> IF tf[1] \in ContainerTypes
                             THEN [i \in 1 .. MaxNodes - 1 |-> i + 1] ELSE << >>]
          ELSE [type |-> "RECTANGLE", fills |-> ArrayFills(<< ImageFill("h1") >>),
                children |-> << >>]] :
        tf \in { x \in NodeTypes \X UNION { FillsOfType(t) : t \in NodeTypes } :
                    x[2] \in FillsOfType(x[1]) } }

InitScan ==
    /\ nodes \in TreeDocuments \cup SweepDocuments
    /\ live = NodeIds
    /\ selection \in Selections
    /\ scanResult = NoScan
    /\ InitRouterIdle

ScanRecursive ==
    /\ scanResult' = [by |-> "recursive", list |-> getUniqueImageCandidates(selection)]
    /\ UNCHANGED << nodes, live, selection, otherVars >>

ScanFlat ==
    /\ scanResult' = [by |-> "flat", list |-> getUniqueImageCandidatesFlat(selection)]
    /\ UNCHANGED << nodes, live, selection, otherVars >>

NextScan == ScanRecursive \/ ScanFlat

SpecScan == InitScan /\ [][NextScan]_<< scanVars, otherVars >>

\* ------------------------------------------------------ scanner claims
\* The nodes below n (its children, their children, ...).
RECURSIVE DescendantsOf(_)
DescendantsOf(n) ==
    LET kids == { nodes[n].children[i] : i \in 1 .. Len(nodes[n].children) }
    IN kids \cup UNION { DescendantsOf(k) : k \in kids }

Selected == { selection[i] : i \in 1 .. Len(selection) }

\* The nodes a scan of the given variant looks at.
Visited(by) ==
    IF by = "recursive"
    THEN Selected \cup UNION { DescendantsOf(n) : n \in Selected }
    ELSE Selected

\* The hashes of the image paints of a node with a concrete fill list.
ImageHashesOf(n) ==
    IF nodes[n].fills.kind # "array" THEN {}
    ELSE { nodes[n].fills.list[i].imageHash :
             i \in { j \in 1 .. Len(nodes[n].fills.list) :
                       /\ nodes[n].fills.list[j].type = "IMAGE"
                       /\ nodes[n].fills.list[j].imageHash \in Hashes } }

\* How many paints of node n are images with hash h.
FillCount(n, h) ==
    IF nodes[n].fills.kind # "array" THEN 0
    ELSE Cardinality({ j \in 1 .. Len(nodes[n].fills.list) :
                         nodes[n].fills.list[j] = ImageFill(h) })

\* The positions of the result that hold the pair (n, h).
PositionsOf(n, h) ==
    { i \in 1 .. Len(scanResult.list) :
        scanResult.list[i].nodeId = n /\ scanResult.list[i].imageHash = h }

\* Which nodes a variant takes candidates from, in the words of the spec:
\* the recursive variant wants an allow-listed kind, the flat one any node
\* with a concrete fill list.
Eligible(by, n) ==
    /\ nodes[n].fills.kind = "array"
    /\ by = "recursive" => nodes[n].type \in AllowedTypes

\* C4 (Dedup): a scan returns at most one candidate per (nodeId, imageHash)
\* pair, and a visited eligible node with two or more image fills of one hash
\* contributes exactly one candidate for it, also when it is visited twice.
C4_Dedup ==
    scanResult.by # "none" =>
        /\ \A i, j \in 1 .. Len(scanResult.list) :
              (/\ scanResult.list[i].nodeId = scanResult.list[j].nodeId
               /\ scanResult.list[i].imageHash = scanResult.list[j].imageHash) => i = j
        /\ \A n \in Visited(scanResult.by), h \in Hashes :
              (Eligible(scanResult.by, n) /\ FillCount(n, h) >= 2)
                  => Cardinality(PositionsOf(n, h)) = 1

\* A recursive scan has met a node with the same image twice both as a
\* selected node and as a child of another selected node.
C4_Witness ==
    /\ scanResult.by = "recursive"
    /\ \E n \in Selected, c \in Selected, h \in Hashes :
          /\ c \in DescendantsOf(n)
          /\ FillCount(c, h) = 2
          /\ Cardinality(PositionsOf(c, h)) = 1

\* C5 (Distinctness): a visited eligible node with image fills of two
\* different hashes yields one candidate per hash, at two different
\* positions, both with the node's id.
C5_Distinct ==
    scanResult.by # "none" =>
        \A n \in Visited(scanResult.by) :
            (Eligible(scanResult.by, n) /\ Cardinality(ImageHashesOf(n)) >= 2)
                => \A h \in ImageHashesOf(n) : Cardinality(PositionsOf(n, h)) = 1

\* A scan has returned two candidates of one node, with different hashes.
C5_Witness ==
    /\ scanResult.by # "none"
    /\ \E i, j \in 1 .. Len(scanResult.list) :
          /\ scanResult.list[i].nodeId = scanResult.list[j].nodeId
          /\ scanResult.list[i].imageHash # scanResult.list[j].imageHash

\* C6 (Mixed-fill exclusion): a node whose fills are the mixed sentinel owns
\* no candidate of either scanner, whatever its kind, and is rejected by the
\* scanner's and by the apply step's eligibility check.
C6_MixedExcluded ==
    \A n \in NodeIds :
        nodes[n].fills.kind = "mixed" =>
            /\ \A i \in 1 .. Len(scanResult.list) : scanResult.list[i].nodeId # n
            /\ ~isImageCapableNode(nodes[n])
            /\ ~isImageOptimizableNode(nodes[n])

\* A scan has visited a mixed-fill node of an allow-listed kind and still
\* returned candidates of other nodes.
C6_Witness ==
    /\ scanResult.by # "none"
    /\ scanResult.list # << >>
    /\ \E n \in Visited(scanResult.by) :
          nodes[n].fills.kind = "mixed" /\ nodes[n].type \in AllowedTypes

\* ------------------------------------------------------ the controller
routerVars ==
    << totalImagesToProcess, processedImageCount, frames, uiPending, emitted,
       last, hist >>

timerVars == << selectionChangeDebounceTimer, timers, sinceEvent, launched >>

vars == << scanVars, routerVars, timerVars >>

Post(type, fields) == [kind |-> "post", type |-> type] @@ fields
Notify(type, error) == [kind |-> "notify", type |-> type, error |-> error]

\* A call of the host the step made: emitted lists them with the messages.
Call(type, fields) == [kind |-> "call", type |-> type] @@ fields

\* The notices that report a finished batch.
AggregateTypes == {"optimize-complete", "export-complete"}

AggregateCount(out) ==
    Cardinality({ i \in 1 .. Len(out) :
                    out[i].kind = "notify" /\ out[i].type \in AggregateTypes })

ErrorCount(out) ==
    Cardinality({ i \in 1 .. Len(out) : out[i].kind = "notify" /\ out[i].error })

RemoveAt(seq, i) == SubSeq(seq, 1, i - 1) \o SubSeq(seq, i + 1, Len(seq))

TargetFormats == {"PNG", "JPG", "WebP"}
InPlaceFormats == {"PNG", "JPG"}

\* The hashes figma.createImage gives to optimized bytes.
NewHashes == {"n1", "n2"}

\* The document of the controller specifications: a frame with an image and
\* a child, a rectangle with two images, and the frame's child, a text node
\* with mixed fills; any further node is an image rectangle at the top level.
OrchDocument ==
    [n \in NodeIds |->
        IF n = 1
        THEN [type |-> "FRAME", fills |-> ArrayFills(<< ImageFill("h1") >>),
              children |-> SelectSeq(<< 3 >>, LAMBDA c : c \in NodeIds)]
        ELSE IF n = 2
        THEN [type |-> "RECTANGLE",
              fills |-> ArrayFills(<< ImageFill("h1"), SolidFill, ImageFill("h2") >>),
              children |-> << >>]
        ELSE IF n = 3
        THEN [type |-> "TEXT", fills |-> MixedFills, children |-> << >>]
        ELSE [type |-> "RECTANGLE", fills |-> ArrayFills(<< ImageFill("h1") >>),
              children |-> << >>]]

\* The selections of the controller specifications: nothing, the frame (one
\* candidate), the rectangle (two), the mixed text node (none), frame and
\* rectangle (three).
OrchSelections == { << >>, << 1 >>, << 2 >>, << 3 >>, << 1, 2 >> } \cap Seq(NodeIds)

\* The hash of the bytes the UI makes of an image: another image.
OptimizedHash(h) == IF h \in {"h1", "n2"} THEN "n1" ELSE "n2"

\* The imagesToOptimize / imagesToExport lists the UI sends: the candidates
\* the scans of OrchSelections found in OrchDocument, which the UI keeps
\* until the next selection-image-data-batch.
BatchLists ==
    { << >>,
      << NewCandidate(1, "h1") >>,
      << NewCandidate(2, "h1"), NewCandidate(2, "h2") >>,
      << NewCandidate(1, "h1"), NewCandidate(2, "h1"), NewCandidate(2, "h2") >> }
    \cap UNION { [1 .. n -> [nodeId : NodeIds, imageHash : Hashes, fileType : {"PNG"}]] :
                   n \in 0 .. MaxPending }

\* What a process-image-data message can ask for: an image of a node in a
\* target format.
WorkKeys ==
    (UNION { { << list[i].nodeId, list[i].imageHash >> : i \in 1 .. Len(list) } :
               list \in BatchLists }) \X TargetFormats

\* The bag of unanswered work: (node, image, target format) -> how many.
NoWork == [k \in WorkKeys |-> 0]

\* How many messages the bag holds: the copies of every key, counted.
BagSize(bag) == Cardinality(UNION { {k} \X (1 .. bag[k]) : k \in DOMAIN bag })

\* How often the image h of node id occurs in a list of candidates.
Occurrences(list, id, h) ==
    Cardinality({ i \in 1 .. Len(list) :
                    list[i].nodeId = id /\ list[i].imageHash = h })

\* The bag after one process-image-data message per entry of list was posted.
WithWork(bag, list, fmt) ==
    [k \in WorkKeys |->
        bag[k] + (IF k[2] = fmt THEN Occurrences(list, k[1][1], k[1][2]) ELSE 0)]

WithoutWork(bag, k) == [bag EXCEPT ![k] = @ - 1]

NoHist ==
    [batch |-> 0, delivered |-> 0, notices |-> 0, failed |-> 0, clean |-> FALSE]

Idle == [handler |-> "none", outcome |-> "none"]

InitRouter ==
    /\ totalImagesToProcess = 0
    /\ processedImageCount = 0
    /\ frames = << >>
    /\ uiPending = NoWork
    /\ emitted = << >>
    /\ last = Idle
    /\ hist = NoHist

InitTimers ==
    /\ selectionChangeDebounceTimer = 0
    /\ timers = {}
    /\ sinceEvent = 0
    /\ launched = FALSE

InitDocument ==
    /\ nodes = OrchDocument
    /\ live = NodeIds
    /\ selection = << >>
    /\ scanResult = NoScan

\* ------------------------------------------------- file name and sniffing
\* String.prototype.toLowerCase on the letters the model uses.
LowerOf(c) ==
    CASE c = "W" -> "w" [] c = "P" -> "p" [] c = "J" -> "j" [] c = "G" -> "g"
      [] c = "N" -> "n" [] c = "B" -> "b" [] c = "E" -> "e" [] OTHER -> c

toLowerCase(str) == [i \in 1 .. Len(str) |-> LowerOf(str[i])]

\* Whether /\.[^/.]+$/ matches str from position i on: a '.', then one or
\* more characters that are neither '/' nor '.', up to the end.
RegexMatchesAt(str, i) ==
    /\ str[i] = "."
    /\ i < Len(str)
    /\ \A j \in i + 1 .. Len(str) : str[j] # "/" /\ str[j] # "."

\* name.replace(/\.[^/.]+$/, ""): the leftmost match is removed.
RECURSIVE ReplaceFrom(_, _)
ReplaceFrom(str, i) ==
    IF i > Len(str) THEN str
    ELSE IF RegexMatchesAt(str, i) THEN SubSeq(str, 1, i - 1)
    ELSE ReplaceFrom(str, i + 1)

stripExtension(name) == ReplaceFrom(name, 1)

\* `${name.replace(/\.[^/.]+$/, "")}.${targetFormat.toLowerCase()}`
\* A slip: the first '.' of the name starts the extension.
downloadFileName_FirstDot(name, targetFormat) ==
    LET dots == { i \in 1 .. Len(name) : name[i] = "." }
        cut == IF dots = {} THEN Len(name) + 1
               ELSE CHOOSE i \in dots : \A j \in dots : i <= j
    IN SubSeq(name, 1, cut - 1) \o << "." >> \o toLowerCase(targetFormat)

downloadFileName(name, targetFormat) ==
    stripExtension(name) \o << "." >> \o toLowerCase(targetFormat)

\* The characters of the target formats.
Chars(fmt) ==
    CASE fmt = "WebP" -> << "W", "e", "b", "P" >>
      [] fmt = "PNG" -> << "P", "N", "G" >>
      [] fmt = "JPG" -> << "J", "P", "G" >>

\* bytes[i] of a Uint8Array: undefined (here -1) past the end.
ByteAt(bytes, i) == IF i + 1 <= Len(bytes) THEN bytes[i + 1] ELSE -1

\* A slip: the WEBP tag is looked for right after RIFF.
sniffFileType_WebpAt4(bytes) ==
    IF ByteAt(bytes, 0) = 255 /\ ByteAt(bytes, 1) = 216 THEN "JPG"
    ELSE IF ByteAt(bytes, 0) = 137 /\ ByteAt(bytes, 1) = 80
            /\ ByteAt(bytes, 2) = 78 /\ ByteAt(bytes, 3) = 71 THEN "PNG"
    ELSE IF ByteAt(bytes, 0) = 82 /\ ByteAt(bytes, 1) = 73
            /\ ByteAt(bytes, 2) = 70 /\ ByteAt(bytes, 3) = 70
            /\ ByteAt(bytes, 4) = 87 /\ ByteAt(bytes, 5) = 69
            /\ ByteAt(bytes, 6) = 66 /\ ByteAt(bytes, 7) = 80 THEN "WebP"
    ELSE "PNG"

\* let fileType = 'PNG'; if (...) 'JPG'; else if (...) 'PNG'; else if (...) 'WebP'
sniffFileType(bytes) ==
    IF ByteAt(bytes, 0) = 255 /\ ByteAt(bytes, 1) = 216 THEN "JPG"
    ELSE IF ByteAt(bytes, 0) = 137 /\ ByteAt(bytes, 1) = 80
            /\ ByteAt(bytes, 2) = 78 /\ ByteAt(bytes, 3) = 71 THEN "PNG"
    ELSE IF ByteAt(bytes, 0) = 82 /\ ByteAt(bytes, 1) = 73
            /\ ByteAt(bytes, 2) = 70 /\ ByteAt(bytes, 3) = 70
            /\ ByteAt(bytes, 8) = 87 /\ ByteAt(bytes, 9) = 69
            /\ ByteAt(bytes, 10) = 66 /\ ByteAt(bytes, 11) = 80 THEN "WebP"
    ELSE "PNG"

\* ------------------------------------------- figma.ui.onmessage: batches
\* The history of the batch and burst in progress is kept only while the run
\* still is the scenario it describes.
Normal(h) == IF h.clean THEN h ELSE NoHist

ApplyFrames == { i \in 1 .. Len(frames) : frames[i].kind = "apply" }

\* A slip: the counter is set before the test for an empty list, as the
\* export-images-as-webp branch does.
OptimizeImages_ResetFirst(imagesToOptimize, fmt) ==
    /\ BagSize(uiPending) + Len(frames) + Len(imagesToOptimize) <= MaxPending
    /\ IF Len(imagesToOptimize) = 0
       THEN /\ emitted' = << Notify("no-images", TRUE) >>
            /\ last' = [handler |-> "optimize-images", outcome |-> "aborted",
                        candidates |-> 0]
            /\ totalImagesToProcess' = 0
            /\ processedImageCount' = 0
            /\ UNCHANGED << uiPending, hist >>
       ELSE /\ totalImagesToProcess' = Len(imagesToOptimize)
            /\ processedImageCount' = 0
            /\ emitted' =
                  << Notify("optimizing", FALSE) >> \o
                  [i \in 1 .. Len(imagesToOptimize) |->
                      Post("process-image-data",
                           [imageNodeId |-> imagesToOptimize[i].nodeId,
                            imageBytes |-> imagesToOptimize[i].imageHash,
                            targetFormat |-> fmt])]
            /\ uiPending' = WithWork(uiPending, imagesToOptimize, fmt)
            /\ last' = [handler |-> "optimize-images", outcome |-> "dispatched",
                        candidates |-> Len(imagesToOptimize)]
            /\ hist' = Normal([batch |-> Len(imagesToOptimize), delivered |-> 0,
                               notices |-> 0, failed |-> 0,
                               clean |-> /\ uiPending = NoWork
                                         /\ ApplyFrames = {}
                                         /\ fmt \in InPlaceFormats])
    /\ UNCHANGED << scanVars, timerVars, frames >>

\* msg.type === 'optimize-images'
OptimizeImages(imagesToOptimize, fmt) ==
    /\ BagSize(uiPending) + Len(frames) + Len(imagesToOptimize) <= MaxPending
    /\ IF Len(imagesToOptimize) = 0
       THEN /\ emitted' = << Notify("no-images", TRUE) >>
            /\ last' = [handler |-> "optimize-images", outcome |-> "aborted",
                        candidates |-> 0]
            /\ UNCHANGED << totalImagesToProcess, processedImageCount, uiPending, hist >>
       ELSE /\ totalImagesToProcess' = Len(imagesToOptimize)
            /\ processedImageCount' = 0
            /\ emitted' =
                  << Notify("optimizing", FALSE) >> \o
                  [i \in 1 .. Len(imagesToOptimize) |->
                      Post("process-image-data",
                           [imageNodeId |-> imagesToOptimize[i].nodeId,
                            imageBytes |-> imagesToOptimize[i].imageHash,
                            targetFormat |-> fmt])]
            /\ uiPending' = WithWork(uiPending, imagesToOptimize, fmt)
            /\ last' = [handler |-> "optimize-images", outcome |-> "dispatched",
                        candidates |-> Len(imagesToOptimize)]
            /\ hist' = Normal([batch |-> Len(imagesToOptimize), delivered |-> 0,
                               notices |-> 0, failed |-> 0,
                               clean |-> /\ uiPending = NoWork
                                         /\ ApplyFrames = {}
                                         /\ fmt \in InPlaceFormats])
    /\ UNCHANGED << scanVars, timerVars, frames >>

\* msg.type === 'export-images-as-webp'
\* A slip: a new batch keeps the completed count of the batch before it.
ExportImagesAsWebp_KeepsCount(imagesToExport) ==
    /\ BagSize(uiPending) + Len(frames) + Len(imagesToExport) <= MaxPending
    /\ totalImagesToProcess' = Len(imagesToExport)
    /\ processedImageCount' = processedImageCount
    /\ emitted' =
          << Notify("exporting", FALSE) >> \o
          [i \in 1 .. Len(imagesToExport) |->
              Post("process-image-data",
                   [imageNodeId |-> imagesToExport[i].nodeId,
                    imageBytes |-> imagesToExport[i].imageHash,
                    targetFormat |-> "WebP"])]
    /\ uiPending' = WithWork(uiPending, imagesToExport, "WebP")
    /\ last' = [handler |-> "export-images-as-webp", outcome |-> "dispatched",
                candidates |-> Len(imagesToExport)]
    /\ hist' = NoHist
    /\ UNCHANGED << scanVars, timerVars, frames >>

ExportImagesAsWebp(imagesToExport) ==
    /\ BagSize(uiPending) + Len(frames) + Len(imagesToExport) <= MaxPending
    /\ totalImagesToProcess' = Len(imagesToExport)
    /\ processedImageCount' = 0
    /\ emitted' =
          << Notify("exporting", FALSE) >> \o
          [i \in 1 .. Len(imagesToExport) |->
              Post("process-image-data",
                   [imageNodeId |-> imagesToExport[i].nodeId,
                    imageBytes |-> imagesToExport[i].imageHash,
                    targetFormat |-> "WebP"])]
    /\ uiPending' = WithWork(uiPending, imagesToExport, "WebP")
    /\ last' = [handler |-> "export-images-as-webp", outcome |-> "dispatched",
                candidates |-> Len(imagesToExport)]
    /\ hist' = NoHist
    /\ UNCHANGED << scanVars, timerVars, frames >>

\* processedImageCount++; if (processedImageCount === totalImagesToProcess)
\* { figma.notify(...); totalImagesToProcess = 0; processedImageCount = 0; }
\* A slip: the counts are compared before the increment.
CountOne_CompareFirst(noticeType) ==
    IF processedImageCount = totalImagesToProcess
    THEN [total |-> 0, processed |-> 0, out |-> << Notify(noticeType, FALSE) >>]
    ELSE [total |-> totalImagesToProcess, processed |-> processedImageCount + 1,
          out |-> << >>]

\* A slip: the notice is emitted and the counts are left as they are.
CountOne_NoReset(noticeType) ==
    IF processedImageCount + 1 = totalImagesToProcess
    THEN [total |-> totalImagesToProcess, processed |-> processedImageCount + 1,
          out |-> << Notify(noticeType, FALSE) >>]
    ELSE [total |-> totalImagesToProcess, processed |-> processedImageCount + 1,
          out |-> << >>]

CountOne(noticeType) ==
    IF processedImageCount + 1 = totalImagesToProcess
    THEN [total |-> 0, processed |-> 0, out |-> << Notify(noticeType, FALSE) >>]
    ELSE [total |-> totalImagesToProcess, processed |-> processedImageCount + 1,
          out |-> << >>]

\* figma.ui.postMessage({ type: 'trigger-download', ... }); byteLength is
\* the number of bytes of the payload.
\* A slip: the size of the original is sent as the optimized size.
TriggerDownload_OriginalSize(name, targetFormat, optimizedBytes, originalSize) ==
    Post("trigger-download",
         [fileName |-> downloadFileName(name, targetFormat),
          bytes |-> optimizedBytes,
          originalSize |-> originalSize,
          optimizedSize |-> originalSize])

TriggerDownload(name, targetFormat, optimizedBytes, originalSize) ==
    Post("trigger-download",
         [fileName |-> downloadFileName(name, targetFormat),
          bytes |-> optimizedBytes,
          originalSize |-> originalSize,
          optimizedSize |-> Len(optimizedBytes)])

\* msg.type === 'webp-export-complete'
WebpExportComplete(name, targetFormat, optimizedBytes, originalSize) ==
    /\ processedImageCount < MaxCount
    /\ LET c == CountOne("export-complete")
       IN /\ emitted' =
                << TriggerDownload(name, targetFormat, optimizedBytes, originalSize) >>
                \o c.out
          /\ totalImagesToProcess' = c.total
          /\ processedImageCount' = c.processed
    /\ last' = [handler |-> "webp-export-complete", outcome |-> "applied",
                name |-> name, targetFormat |-> targetFormat,
                optimizedBytes |-> optimizedBytes]
    /\ hist' = NoHist
    /\ UNCHANGED << scanVars, timerVars, frames >>

\* msg.type === 'image-optimization-complete', up to await getNodeByIdAsync
\* A slip: the test of the target format is missing.
ImageOptimizationCompleteStart_AnyFormat(imageNodeId, targetFormat, newHash, resized) ==
    /\ emitted' = << >>
    /\ Len(frames) < MaxFrames
    /\ frames' = Append(frames, [kind |-> "apply", nodeId |-> imageNodeId,
                                 newHash |-> newHash, resized |-> resized])
    /\ last' = [handler |-> "image-optimization-complete", outcome |-> "suspended"]
    /\ hist' = hist
    /\ UNCHANGED << scanVars, timerVars, totalImagesToProcess, processedImageCount >>

ImageOptimizationCompleteStart(imageNodeId, targetFormat, newHash, resized) ==
    /\ emitted' = << >>
    /\ IF targetFormat \in InPlaceFormats
       THEN /\ Len(frames) < MaxFrames
            /\ frames' = Append(frames, [kind |-> "apply", nodeId |-> imageNodeId,
                                         newHash |-> newHash, resized |-> resized])
            /\ last' = [handler |-> "image-optimization-complete",
                        outcome |-> "suspended"]
            /\ hist' = hist
       ELSE /\ frames' = frames
            /\ last' = [handler |-> "image-optimization-complete",
                        outcome |-> "ignored"]
            /\ hist' = NoHist
    /\ UNCHANGED << scanVars, timerVars, totalImagesToProcess, processedImageCount >>

\* for (const fill of node.fills) { ... } of the apply step: the first image
\* paint with a hash gets the new hash, every other paint is kept.
RECURSIVE ReplaceFirstImage(_, _, _)
\* A slip: fillUpdatedForNode is never set, every image paint is replaced.
ReplaceFirstImage_All(list, newHash, fillUpdatedForNode) ==
    [i \in 1 .. Len(list) |->
        IF IsImageFillWithHash(list[i])
        THEN [list[i] EXCEPT !.imageHash = newHash] ELSE list[i]]

ReplaceFirstImage(list, newHash, fillUpdatedForNode) ==
    IF list = << >> THEN << >>
    ELSE IF Head(list).type = "IMAGE" /\ Head(list).imageHash # NullHash
            /\ ~fillUpdatedForNode
         THEN << [Head(list) EXCEPT !.imageHash = newHash] >>
              \o ReplaceFirstImage(Tail(list), newHash, TRUE)
         ELSE << Head(list) >> \o ReplaceFirstImage(Tail(list), newHash, fillUpdatedForNode)

\* await figma.getNodeByIdAsync(imageNodeId): null for a node that is gone.
\* A slip: the node of a stale reference is used.
getNodeById_Stale(id) == nodes[id]

getNodeById(id) == IF id \in live THEN nodes[id] ELSE NullNode

\* What the host may do in the try block: nothing throws, figma.createImage
\* throws (the bytes are no image), or node.resize throws.
ApplyOutcomes(frame) ==
    {"ok", "createImage-throws"} \cup (IF frame.resized THEN {"resize-throws"} ELSE {})

\* if (optimizedWidth && optimizedHeight) node.resize(optimizedWidth,
\* optimizedHeight): the call that writes the node's size.
NodeResize(frame) ==
    IF frame.resized THEN << Call("node.resize", [nodeId |-> frame.nodeId]) >>
    ELSE << >>

\* The handler that ran before this step was image-optimization-failed.
AfterFailure == last.handler = "image-optimization-failed"

\* The handler that ran before this step started a batch.
AfterStart == last.outcome = "dispatched"

\* msg.type === 'image-optimization-complete', after await getNodeByIdAsync
ImageOptimizationCompleteResume(k, outcome) ==
    LET frame == frames[k]
        node == getNodeById(frame.nodeId)
        c == CountOne("optimize-complete")
    IN /\ frame.kind = "apply"
       /\ outcome \in ApplyOutcomes(frame)
       /\ processedImageCount < MaxCount
       /\ frames' = RemoveAt(frames, k)
       /\ IF ~isImageOptimizableNode(node)
          THEN /\ emitted' = << Notify("node-not-found", TRUE) >>
               /\ last' = [handler |-> "image-optimization-complete",
                           outcome |-> "rejected", nodeId |-> frame.nodeId,
                           afterFailure |-> AfterFailure,
                           afterStart |-> AfterStart]
               /\ UNCHANGED << nodes, totalImagesToProcess, processedImageCount >>
          ELSE IF outcome = "createImage-throws"
          THEN /\ emitted' = << Notify("update-failed", TRUE) >>
               /\ last' = [handler |-> "image-optimization-complete",
                           outcome |-> "threw", nodeId |-> frame.nodeId,
                           afterFailure |-> AfterFailure,
                           afterStart |-> AfterStart]
               /\ UNCHANGED << nodes, totalImagesToProcess, processedImageCount >>
          ELSE /\ nodes' = [nodes EXCEPT ![frame.nodeId].fills.list =
                               ReplaceFirstImage(@, frame.newHash, FALSE)]
               /\ IF outcome = "resize-throws"
                  THEN /\ emitted' = << Call("createImage", [hash |-> frame.newHash]),
                                        Notify("update-failed", TRUE) >>
                       /\ last' = [handler |-> "image-optimization-complete",
                                   outcome |-> "threw", nodeId |-> frame.nodeId,
                                   afterFailure |-> AfterFailure,
                                   afterStart |-> AfterStart]
                       /\ UNCHANGED << totalImagesToProcess, processedImageCount >>
                  ELSE /\ emitted' = << Call("createImage", [hash |-> frame.newHash]) >>
                                     \o NodeResize(frame) \o c.out
                       /\ totalImagesToProcess' = c.total
                       /\ processedImageCount' = c.processed
                       /\ last' = [handler |-> "image-optimization-complete",
                                   outcome |-> "applied", nodeId |-> frame.nodeId,
                                   afterFailure |-> AfterFailure,
                                   afterStart |-> AfterStart]
       /\ hist' = Normal([hist EXCEPT
              !.delivered = @ + 1,
              !.notices = @ + AggregateCount(emitted'),
              !.failed = @ + (IF last'.outcome = "applied" THEN 0 ELSE 1)])
       /\ UNCHANGED << live, selection, scanResult, timerVars, uiPending >>

\* msg.type === 'image-optimization-failed'
\* A slip: the failure of one image ends the batch.
ImageOptimizationFailed_Aborts(imageNodeId) ==
    /\ emitted' = << Notify("optimization-failed", TRUE) >>
    /\ last' = [handler |-> "image-optimization-failed", outcome |-> "notified"]
    /\ hist' = NoHist
    /\ totalImagesToProcess' = 0
    /\ processedImageCount' = 0
    /\ UNCHANGED << scanVars, timerVars, frames >>

\* A slip: a failed image is counted like a completed one.
ImageOptimizationFailed_Counts(imageNodeId) ==
    /\ processedImageCount < MaxCount
    /\ emitted' = << Notify("optimization-failed", TRUE) >> \o CountOne("optimize-complete").out
    /\ totalImagesToProcess' = CountOne("optimize-complete").total
    /\ processedImageCount' = CountOne("optimize-complete").processed
    /\ last' = [handler |-> "image-optimization-failed", outcome |-> "notified"]
    /\ hist' = NoHist
    /\ UNCHANGED << scanVars, timerVars, frames >>

ImageOptimizationFailed(imageNodeId) ==
    /\ emitted' = << Notify("optimization-failed", TRUE) >>
    /\ last' = [handler |-> "image-optimization-failed", outcome |-> "notified"]
    /\ hist' = NoHist
    /\ UNCHANGED << scanVars, timerVars, totalImagesToProcess, processedImageCount,
                    frames >>

\* The msg.type values the branches of figma.ui.onmessage test for.
HandledTypes ==
    {"resize-ui", "request-all-image-data", "optimize-images", "export-images-as-webp",
     "webp-export-complete", "image-optimization-complete", "image-optimization-failed",
     "external-export-complete", "external-export-failed", "notify"}

\* Message types no branch tests for: a type of the earlier controller, a
\* handled type in another case, the empty string.
OtherTypes == {"image-export-complete-from-ui", "Optimize-Images", ""}

\* else { console.warn(...) }
\* A slip: the last branch tells the user.
UnhandledMessage_Notifies(type) ==
    /\ type \notin HandledTypes
    /\ emitted' = << Notify("unknown-message", TRUE) >>
    /\ last' = [handler |-> "else", outcome |-> "ignored", type |-> type]
    /\ UNCHANGED << scanVars, timerVars, totalImagesToProcess, processedImageCount,
                    frames, uiPending, hist >>

UnhandledMessage(type) ==
    /\ type \notin HandledTypes
    /\ emitted' = << >>
    /\ last' = [handler |-> "else", outcome |-> "ignored", type |-> type]
    /\ UNCHANGED << scanVars, timerVars, totalImagesToProcess, processedImageCount,
                    frames, uiPending, hist >>

\* ----------------------------------------------- the UI and the user
\* The UI answers the work item k = ((node id, image), format) with
\* image-optimization-complete, echoing node and format.
UiCompletes(k, resized) ==
    /\ uiPending[k] > 0
    /\ ImageOptimizationCompleteStart(k[1][1], k[2], OptimizedHash(k[1][2]), resized)
    /\ uiPending' = WithoutWork(uiPending, k)

\* msg.originalSize: the assets of the document have the eight bytes of the
\* PNG signature.
OriginalSize == Len(<< 137, 80, 78, 71, 13, 10, 26, 10 >>)

\* The UI answers a work item with webp-export-complete.
UiExports(k, name, optimizedBytes) ==
    /\ uiPending[k] > 0
    /\ WebpExportComplete(name, Chars(k[2]), optimizedBytes, OriginalSize)
    /\ uiPending' = WithoutWork(uiPending, k)

\* The UI answers a work item with image-optimization-failed.
UiFails(k) ==
    /\ uiPending[k] > 0
    /\ ImageOptimizationFailed(k[1][1])
    /\ uiPending' = WithoutWork(uiPending, k)

\* Node n is named by an unanswered message or by a suspended apply.
InFlight(n) ==
    \/ \E k \in WorkKeys : k[1][1] = n /\ uiPending[k] > 0
    \/ \E i \in 1 .. Len(frames) : frames[i].kind = "apply" /\ frames[i].nodeId = n

\* The user deletes node n, which is in flight: it and the nodes below it
\* leave the document and the selection.
UserRemovesNode(n) ==
    LET gone == {n} \cup DescendantsOf(n)
    IN /\ n \in live
       /\ InFlight(n)
       /\ \E kept \in SUBSET live :
             /\ Cardinality(NodeIds \ kept) <= MaxRemoved
             /\ gone \subseteq NodeIds \ kept
       /\ live' = live \ gone
       /\ selection' = SelectSeq(selection, LAMBDA m : m \notin gone)
       /\ nodes' = [m \in NodeIds |->
                       [nodes[m] EXCEPT !.children =
                           SelectSeq(@, LAMBDA c : c \notin gone)]]
       /\ emitted' = << >>
       /\ last' = [handler |-> "none", outcome |-> "none"]
       /\ UNCHANGED << scanResult, timerVars, totalImagesToProcess,
                       processedImageCount, frames, uiPending, hist >>

\* The node names and the target formats of the controller specifications.
OrchNames == { << "a", ".", "b" >> }
OrchFormats == {"JPG", "WebP"}
\* The payloads of webp-export-complete: no byte, or the four bytes 'RIFF'.
OrchBytes == { << >>, << 82, 73, 70, 70 >> }

InitSpec == InitDocument /\ InitRouter /\ InitTimers

Next ==
    \/ \E list \in BatchLists, fmt \in OrchFormats : OptimizeImages(list, fmt)
    \/ \E list \in BatchLists : ExportImagesAsWebp(list)
    \/ \E k \in WorkKeys, r \in BOOLEAN : UiCompletes(k, r)
    \/ \E k \in 1 .. MaxFrames, o \in {"ok", "createImage-throws", "resize-throws"} :
          k <= Len(frames) /\ ImageOptimizationCompleteResume(k, o)
    \/ \E k \in WorkKeys, name \in OrchNames, bytes \in OrchBytes :
          UiExports(k, name, bytes)
    \/ \E k \in WorkKeys : UiFails(k)
    \/ \E n \in NodeIds : UserRemovesNode(n)
    \/ \E type \in OtherTypes : UnhandledMessage(type)

Spec == InitSpec /\ [][Next]_vars

\* ------------------------------------------- the download's file name
\* Most characters of a node name.
MaxNameLen == 3

NameAlphabet == {"a", "B", ".", "/"}

PhotoPng == << "p", "h", "o", "t", "o", ".", "p", "n", "g" >>
PhotoWebp == << "p", "h", "o", "t", "o", ".", "w", "e", "b", "p" >>

\* The names the UI echoes in webp-export-complete.
Names == UNION { [1 .. n -> NameAlphabet] : n \in 0 .. MaxNameLen } \cup { PhotoPng }

\* The UI sends webp-export-complete with any name and target format.
ExportCompleteArrives(name, fmt) ==
    /\ WebpExportComplete(name, Chars(fmt), << >>, OriginalSize)
    /\ UNCHANGED uiPending

NextName ==
    \E name \in Names, fmt \in TargetFormats : ExportCompleteArrives(name, fmt)

SpecName == InitSpec /\ [][NextName]_vars

\* The extension of a name: what follows its last '.', when that is at least
\* one character and holds no '/'.
LastDot(name) ==
    LET dots == { i \in 1 .. Len(name) : name[i] = "." }
    IN IF dots = {} THEN 0 ELSE CHOOSE i \in dots : \A j \in dots : j <= i

HasExtension(name) ==
    /\ LastDot(name) > 0
    /\ LastDot(name) < Len(name)
    /\ \A j \in LastDot(name) + 1 .. Len(name) : name[j] # "/"

LowerCaseName(fmt) ==
    CASE fmt = << "W", "e", "b", "P" >> -> << "w", "e", "b", "p" >>
      [] fmt = << "P", "N", "G" >> -> << "p", "n", "g" >>
      [] fmt = << "J", "P", "G" >> -> << "j", "p", "g" >>

\* C9 (file name derivation): the trigger-download message of
\* webp-export-complete names the file by the received name without its
\* trailing extension (a '.' and one or more characters other than '/' and
\* '.', at the end), then '.', then the target format in lower case;
\* 'photo.png' with 'WebP' gives 'photo.webp'.
C9_FileName ==
    last.handler = "webp-export-complete" =>
        LET name == last.name
            stem == IF HasExtension(name) THEN SubSeq(name, 1, LastDot(name) - 1)
                    ELSE name
        IN /\ emitted[1].type = "trigger-download"
           /\ emitted[1].fileName = stem \o << "." >> \o LowerCaseName(last.targetFormat)
           /\ name = PhotoPng /\ last.targetFormat = << "W", "e", "b", "P" >>
                 => emitted[1].fileName = PhotoWebp

C9_Witness ==
    /\ last.handler = "webp-export-complete"
    /\ last.name = PhotoPng
    /\ last.targetFormat = << "W", "e", "b", "P" >>
    /\ emitted[1].fileName = PhotoWebp

\* --------------------------------------------- claims on the batch counter
\* C1 (progress completion): once an optimize-images batch of N >= 1
\* candidates with an in-place format was dispatched and its N
\* image-optimization-complete events are handled, one per candidate and in
\* any order, no aggregate notice precedes the N-th event, and after the N-th
\* exactly one was emitted and the counter is (0, 0).
C1_ProgressCompletion ==
    hist.clean /\ hist.batch >= 1 =>
        /\ hist.delivered < hist.batch => hist.notices = 0
        /\ hist.delivered = hist.batch =>
              /\ hist.notices = 1
              /\ totalImagesToProcess = 0
              /\ processedImageCount = 0

\* The same with every one of the N events applied to its node.
C1_WhenAllApplied ==
    hist.clean /\ hist.batch >= 1 /\ hist.failed = 0 =>
        /\ hist.delivered < hist.batch =>
              hist.notices = 0 /\ processedImageCount = hist.delivered
        /\ hist.delivered = hist.batch =>
              /\ hist.notices = 1
              /\ totalImagesToProcess = 0
              /\ processedImageCount = 0

\* C10 (aggregate notice rule): a completion handler that applies its event
\* (image-optimization-complete, webp-export-complete) adds one to the
\* completed count; when that makes it equal to total, the same step emits
\* exactly one aggregate notice and sets both counts to 0; otherwise the step
\* emits no aggregate notice and leaves total as it was.
C10_AggregateRule ==
    [][ last'.outcome = "applied" =>
           IF processedImageCount + 1 = totalImagesToProcess
           THEN /\ AggregateCount(emitted') = 1
                /\ totalImagesToProcess' = 0
                /\ processedImageCount' = 0
           ELSE /\ AggregateCount(emitted') = 0
                /\ totalImagesToProcess' = totalImagesToProcess
                /\ processedImageCount' = processedImageCount + 1 ]_vars

C10_Witness ==
    /\ last.outcome = "applied"
    /\ AggregateCount(emitted) = 1
    /\ totalImagesToProcess = 0
    /\ processedImageCount = 0

\* ------------------------------------------------- sendAllImageDataToUI
\* figma.ui.postMessage({ type: 'selection-image-data-batch', imagesData })
\* A slip: the records were put in front of the list (unshift for push).
BatchMessage_Unshift(imagesDataForUI) ==
    Post("selection-image-data-batch",
         [imagesData |-> [i \in 1 .. Len(imagesDataForUI) |->
                            imagesDataForUI[Len(imagesDataForUI) + 1 - i]]])

BatchMessage(imagesDataForUI) ==
    Post("selection-image-data-batch", [imagesData |-> imagesDataForUI])

\* url: `data:image/${fileType.toLowerCase()};base64,${imageURL}`
UrlOf(fileType) ==
    CASE fileType = "JPG" -> "data:image/jpg;base64"
      [] fileType = "PNG" -> "data:image/png;base64"
      [] fileType = "WebP" -> "data:image/webp;base64"

\* The record pushed after both awaits resolved.
Loaded(candidate, bytes) ==
    [nodeId |-> candidate.nodeId, imageHash |-> candidate.imageHash,
     imageBytes |-> bytes, fileType |-> sniffFileType(bytes),
     url |-> UrlOf(sniffFileType(bytes))]

\* The record pushed in the catch block.
Placeholder(candidate) ==
    [nodeId |-> candidate.nodeId, imageHash |-> candidate.imageHash,
     imageBytes |-> << >>, fileType |-> "UNKNOWN", url |-> ""]

\* The first candidate from position i on whose asset figma.getImageByHash
\* finds, missing being the hashes it does not find; Len + 1 if there is none.
NextFetch(candidates, i, missing) ==
    LET found == { j \in i .. Len(candidates) : candidates[j].imageHash \notin missing }
    IN IF found = {} THEN Len(candidates) + 1
       ELSE CHOOSE j \in found : \A m \in found : j <= m

LookupCalls(candidates, i, j) ==
    LET upTo == IF j <= Len(candidates) THEN j ELSE Len(candidates)
    IN [x \in 1 .. (upTo - i + 1) |->
           Call("getImageByHash", [imageHash |-> candidates[i + x - 1].imageHash])]

\* handleSelectionChange is the listener of run and the callback of the
\* timeout; request-all-image-data has a branch of its own.
\* A slip: the timeout runs the branch of request-all-image-data.
IsHandleSelectionChange_RunOnly(origin) == origin = "run"

IsHandleSelectionChange(origin) == origin \in {"run", "timeout"}

\* The loop of sendAllImageDataToUI from candidate i on, up to its next await
\* or, past the last candidate, the batch message and the return into the
\* caller; imagesDataForUI is what was pushed so far, others are the other
\* suspended executions.
SendAllImageDataLoop(origin, candidates, i, imagesDataForUI, missing, pre, others) ==
    LET j == NextFetch(candidates, i, missing)
    IN IF j <= Len(candidates)
       THEN /\ frames' = Append(others,
                   [kind |-> "scan", origin |-> origin, candidates |-> candidates,
                    i |-> j, at |-> "getBytesAsync", bytes |-> << >>,
                    out |-> imagesDataForUI])
            /\ emitted' = pre \o LookupCalls(candidates, i, j) \o
                  << Call("getBytesAsync", [imageHash |-> candidates[j].imageHash]) >>
            /\ last' = [handler |-> origin, outcome |-> "suspended",
                        step |-> IF others = frames THEN "begin" ELSE "resume",
                        count |-> Len(candidates)]
            /\ UNCHANGED selectionChangeDebounceTimer
       ELSE /\ frames' = others
            /\ emitted' = pre \o LookupCalls(candidates, i, j) \o
                  << BatchMessage(imagesDataForUI) >>
            /\ last' = [handler |-> origin, outcome |-> "finished",
                        step |-> IF others = frames THEN "begin" ELSE "resume",
                        count |-> Len(candidates)]
            /\ selectionChangeDebounceTimer' =
                  IF IsHandleSelectionChange(origin) THEN 0
                  ELSE selectionChangeDebounceTimer

\* The else branch of the callers: no candidate, an empty batch.
\* A slip: the branch is left out.
EmptyBatch_Silent(pre) == pre

EmptyBatch(pre) == pre \o << BatchMessage(<< >>) >>

\* handleSelectionChange and the request-all-image-data branch, up to the
\* first await or, without one, to the end.
\* room: the model can hold the execution, should it suspend.
\* A slip: selectedNodeCount carries the number of selected nodes.
ScanBeginIf_NodeCount(origin, missing, room) ==
    LET uniqueImageCandidates == getUniqueImageCandidates(selection)
        pre == IF IsHandleSelectionChange(origin)
               THEN << Post("selection-change",
                            [selectedNodeCount |-> Len(selection)]) >>
               ELSE << >>
    IN /\ room
       /\ IF Len(uniqueImageCandidates) > 0
          THEN SendAllImageDataLoop(origin, uniqueImageCandidates, 1, << >>,
                                    missing, pre, frames)
          ELSE /\ emitted' = EmptyBatch(pre)
               /\ frames' = frames
               /\ last' = [handler |-> origin, outcome |-> "finished", step |-> "begin",
                           count |-> 0]
               /\ selectionChangeDebounceTimer' =
                     IF IsHandleSelectionChange(origin) THEN 0
                     ELSE selectionChangeDebounceTimer

ScanBeginIf(origin, missing, room) ==
    LET uniqueImageCandidates == getUniqueImageCandidates(selection)
        pre == IF IsHandleSelectionChange(origin)
               THEN << Post("selection-change",
                            [selectedNodeCount |-> Len(uniqueImageCandidates)]) >>
               ELSE << >>
    IN /\ room
       /\ IF Len(uniqueImageCandidates) > 0
          THEN SendAllImageDataLoop(origin, uniqueImageCandidates, 1, << >>,
                                    missing, pre, frames)
          ELSE /\ emitted' = EmptyBatch(pre)
               /\ frames' = frames
               /\ last' = [handler |-> origin, outcome |-> "finished", step |-> "begin",
                           count |-> 0]
               /\ selectionChangeDebounceTimer' =
                     IF IsHandleSelectionChange(origin) THEN 0
                     ELSE selectionChangeDebounceTimer

ScanBegin(origin, missing) == ScanBeginIf(origin, missing, Len(frames) < MaxFrames)

\* An await of a suspended scan settles: getBytesAsync resolves with bytes or
\* rejects, base64Encode resolves or rejects.
ScanResume(k, outcome, bytes, missing) ==
    LET f == frames[k]
        candidate == f.candidates[f.i]
        others == RemoveAt(frames, k)
    IN /\ f.kind = "scan"
       /\ IF outcome = "rejects"
          THEN SendAllImageDataLoop(f.origin, f.candidates, f.i + 1,
                                    Append(f.out, Placeholder(candidate)),
                                    missing, << >>, others)
          ELSE IF f.at = "getBytesAsync"
          THEN /\ frames' = [frames EXCEPT ![k].at = "base64Encode",
                                           ![k].bytes = bytes]
               /\ emitted' = << Call("base64Encode", [imageHash |-> candidate.imageHash]) >>
               /\ last' = [handler |-> f.origin, outcome |-> "suspended",
                           step |-> "resume", count |-> Len(f.candidates)]
               /\ UNCHANGED selectionChangeDebounceTimer
          ELSE SendAllImageDataLoop(f.origin, f.candidates, f.i + 1,
                                    Append(f.out, Loaded(candidate, f.bytes)),
                                    missing, << >>, others)
       /\ UNCHANGED << scanVars, timers, sinceEvent, launched, totalImagesToProcess,
                       processedImageCount, uiPending, hist >>

\* msg.type === 'request-all-image-data'
RequestAllImageData(missing) ==
    /\ ScanBegin("request-all-image-data", missing)
    /\ UNCHANGED << scanVars, timers, sinceEvent, launched, totalImagesToProcess,
                    processedImageCount, uiPending, hist >>

\* ------------------------------------------------------ format sniffing
\* Most zero bytes that follow a header in an asset.
MaxPad == 1

JpgHeader == << 255, 216, 255, 224 >>
PngHeader == << 137, 80, 78, 71, 13, 10, 26, 10 >>
WebpHeader == << 82, 73, 70, 70, 0, 0, 0, 0, 87, 69, 66, 80 >>
\* 'WEBP' directly behind 'RIFF', and a JPEG start before a PNG signature.
RiffWebpAt4 == << 82, 73, 70, 70, 87, 69, 66, 80, 0, 0, 0, 0 >>
JpgThenPng == << 255, 216, 78, 71 >>

Headers == { JpgHeader, PngHeader, WebpHeader, RiffWebpAt4, JpgThenPng }

Zeros(n) == [i \in 1 .. n |-> 0]

\* The assets' bytes: every header, cut short, with one byte zeroed, and with
\* zero bytes behind it.
SniffInputs ==
    UNION { { SubSeq(h, 1, n) : n \in 0 .. Len(h) }
            \cup { [h EXCEPT ![i] = 0] : i \in 1 .. Len(h) }
            \cup { h \o Zeros(n) : n \in 0 .. MaxPad } : h \in Headers }

InitSniff ==
    /\ nodes = OrchDocument
    /\ live = NodeIds
    /\ selection = << 1 >>
    /\ scanResult = NoScan
    /\ InitRouter
    /\ InitTimers

NextSniff ==
    \/ RequestAllImageData({})
    \/ \E k \in 1 .. MaxFrames, outcome \in {"resolves", "rejects"},
          bytes \in SniffInputs :
          k <= Len(frames) /\ ScanResume(k, outcome, bytes, {})

SpecSniff == InitSniff /\ [][NextSniff]_vars

StartsWith(bytes, prefix) ==
    Len(bytes) >= Len(prefix) /\ SubSeq(bytes, 1, Len(prefix)) = prefix

\* The type the sniffing rule gives to bytes.
SniffedType(bytes) ==
    IF StartsWith(bytes, << 255, 216 >>) THEN "JPG"
    ELSE IF StartsWith(bytes, << 137, 80, 78, 71 >>) THEN "PNG"
    ELSE IF /\ StartsWith(bytes, << 82, 73, 70, 70 >>)
            /\ Len(bytes) >= 12
            /\ SubSeq(bytes, 9, 12) = << 87, 69, 66, 80 >> THEN "WebP"
    ELSE "PNG"

\* The records of the batch message the last step posted.
BatchRecords ==
    UNION { { emitted[i].imagesData[j] : j \in 1 .. Len(emitted[i].imagesData) } :
              i \in { x \in 1 .. Len(emitted) :
                        emitted[x].type = "selection-image-data-batch" } }

\* C8 (format sniffing): a record made from fetched bytes is JPG when the
\* bytes start FF D8; else PNG when they start 89 50 4E 47; else WebP when
\* they start 'RIFF' and hold 'WEBP' at offsets 8-11; else PNG, as for every
\* asset shorter than 12 bytes that starts with neither signature.
C8_Sniffing ==
    \A r \in BatchRecords :
        r.url # "" =>
            /\ r.fileType = SniffedType(r.imageBytes)
            /\ Len(r.imageBytes) < 12 /\ ~StartsWith(r.imageBytes, << 255, 216 >>)
                  => r.fileType = "PNG"

C8_Witness ==
    \E r \in BatchRecords :
        r.url # "" /\ r.fileType = "WebP" /\ r.imageBytes = WebpHeader \o Zeros(1)

\* ------------------------------------------------ the debounce timer
DEBOUNCE_DELAY_MS == 200

\* How far one step of the clock advances the time, in ms.
TickMs == 100
\* Most timeouts pending at one time.
MaxTimers == 2
\* Where the count of the events of a burst stops.
MaxBurst == 5

\* The history of the burst of selectionchange events in progress: how many
\* events, how often a timeout ran handleSelectionChange since its first
\* event, whether one did so less than the delay after an event.
NoBurst == [burst |-> 0, runs |-> 0, early |-> FALSE, clean |-> FALSE]

\* An execution of handleSelectionChange is suspended.
Scanning ==
    \E k \in 1 .. Len(frames) :
        frames[k].kind = "scan" /\ IsHandleSelectionChange(frames[k].origin)

\* The id setTimeout returns: one no pending timeout and no kept handle has.
FreshId ==
    CHOOSE id \in 1 .. MaxTimers + 2 :
        /\ id \notin { t.id : t \in timers } \cup { selectionChangeDebounceTimer }
        /\ \A other \in 1 .. id - 1 :
              other \in { t.id : t \in timers } \cup { selectionChangeDebounceTimer }

\* if (selectionChangeDebounceTimer) { clearTimeout(...) }: the timeouts that
\* stay pending.
\* A slip: the pending timeout is not cleared.
clearTimeout_Nothing(id) == timers

clearTimeout(id) == IF id # 0 THEN { t \in timers : t.id # id } ELSE timers

\* figma.on('selectionchange'): the user selects sel.
SelectionChangeEvent(sel) ==
    LET kept == clearTimeout(selectionChangeDebounceTimer)
    IN /\ Cardinality(kept) < MaxTimers
       /\ selection' = sel
       /\ timers' = kept \cup { [id |-> FreshId, remaining |-> DEBOUNCE_DELAY_MS] }
       /\ selectionChangeDebounceTimer' = FreshId
       /\ sinceEvent' = 0
       /\ emitted' = << >>
       /\ last' = [handler |-> "selectionchange", outcome |-> "armed"]
       /\ hist' =
             IF Scanning THEN NoBurst
             ELSE IF timers = {}
             THEN [burst |-> 1, runs |-> 0, early |-> FALSE, clean |-> TRUE]
             ELSE IF /\ hist.clean
                     /\ hist.runs = 0
                     /\ sinceEvent < DEBOUNCE_DELAY_MS
                  THEN [hist EXCEPT !.burst = IF @ < MaxBurst THEN @ + 1 ELSE @]
                  ELSE NoBurst
       /\ UNCHANGED << nodes, live, scanResult, launched, frames,
                       totalImagesToProcess, processedImageCount, uiPending >>

\* Time passes, as long as no timeout is due.
Tick ==
    /\ timers # {} \/ sinceEvent < DEBOUNCE_DELAY_MS
    /\ \A t \in timers : t.remaining > 0
    /\ timers' = { [t EXCEPT !.remaining = IF @ > TickMs THEN @ - TickMs ELSE 0] :
                     t \in timers }
    /\ sinceEvent' = IF sinceEvent + TickMs < DEBOUNCE_DELAY_MS
                     THEN sinceEvent + TickMs ELSE DEBOUNCE_DELAY_MS
    /\ emitted' = << >>
    /\ last' = Idle
    /\ UNCHANGED << scanVars, selectionChangeDebounceTimer, launched, frames,
                    totalImagesToProcess, processedImageCount, uiPending, hist >>

\* A due timeout calls handleSelectionChange.
TimerFires(id, missing) ==
    \E t \in timers :
        /\ t.id = id
        /\ t.remaining = 0
        /\ timers' = timers \ {t}
        /\ ScanBegin("timeout", missing)
        /\ hist' = IF hist.clean
                   THEN [hist EXCEPT !.runs = @ + 1,
                                     !.early = @ \/ sinceEvent < DEBOUNCE_DELAY_MS]
                   ELSE hist
        /\ UNCHANGED << scanVars, sinceEvent, launched, totalImagesToProcess,
                        processedImageCount, uiPending >>

\* figma.on('run'), delivered once.
RunEvent(missing) ==
    /\ ~launched
    /\ launched' = TRUE
    /\ ScanBegin("run", missing)
    /\ hist' = NoBurst
    /\ UNCHANGED << scanVars, timers, sinceEvent, totalImagesToProcess,
                    processedImageCount, uiPending >>

\* The selections of the debounce specification: nothing, the text node with
\* mixed fills, the frame with one image.
DebounceSelections == { << >>, << 3 >>, << 1 >> } \cap Seq(NodeIds)

\* The bytes of the assets of the debounce specification.
ScanBytes == { PngHeader }

InitDebounce ==
    /\ InitDocument
    /\ InitTimers
    /\ totalImagesToProcess = 0
    /\ processedImageCount = 0
    /\ frames = << >>
    /\ uiPending = NoWork
    /\ emitted = << >>
    /\ last = Idle
    /\ hist = NoBurst

\* The await of the k-th suspended scan settles.
SettlesAt(k) ==
    \E outcome \in {"resolves", "rejects"}, bytes \in ScanBytes,
       missing \in SUBSET Hashes :
       k <= Len(frames) /\ ScanResume(k, outcome, bytes, missing)

AwaitSettles == \E k \in 1 .. MaxFrames : SettlesAt(k)

NextDebounce ==
    \/ \E sel \in DebounceSelections : SelectionChangeEvent(sel)
    \/ Tick
    \/ \E id \in 1 .. MaxTimers + 2, missing \in SUBSET Hashes : TimerFires(id, missing)
    \/ \E missing \in SUBSET Hashes : RunEvent(missing)
    \/ \E missing \in SUBSET Hashes : RequestAllImageData(missing)
    \/ AwaitSettles

SpecDebounce == InitDebounce /\ [][NextDebounce]_vars

\* The executions of handleSelectionChange alone, begun by run and by the
\* timeout; the host settles every promise an execution awaits.
NextSelection ==
    \/ \E sel \in DebounceSelections : SelectionChangeEvent(sel)
    \/ Tick
    \/ \E id \in 1 .. MaxTimers + 2, missing \in SUBSET Hashes : TimerFires(id, missing)
    \/ \E missing \in SUBSET Hashes : RunEvent(missing)
    \/ AwaitSettles

SpecSelectionFair ==
    /\ InitDebounce
    /\ [][NextSelection]_vars
    /\ \A k \in 1 .. MaxFrames : WF_vars(SettlesAt(k))

\* C2 (debounce): a burst of k >= 1 selectionchange events, each less than
\* the delay after the one before, with no handleSelectionChange in progress,
\* has handleSelectionChange run exactly once: while the burst's timeout is
\* pending it has not run, once no timeout is pending it has run once, and it
\* did not run before the delay had passed since the last event.
C2_Debounce ==
    hist.clean /\ hist.burst >= 1 =>
        /\ hist.runs <= 1
        /\ ~hist.early
        /\ timers # {} => hist.runs = 0 /\ Cardinality(timers) = 1
        /\ timers = {} => hist.runs = 1

C2_Witness ==
    /\ hist.clean
    /\ hist.burst = MaxBurst
    /\ hist.runs = 1
    /\ timers = {}
    /\ last.handler = "timeout"

\* C3 (debounce singleton): at most one debounce timeout is pending in every
\* reachable state, whatever the order of selectionchange events, timeouts,
\* the run event and suspended and resumed handleSelectionChange executions.
C3_DebounceSingleton == Cardinality(timers) <= 1

\* The selection holds no image-bearing node: no node the scan visits has a
\* fill list with an image paint.
NoImageBearingNode == \A n \in Visited("recursive") : ImageHashesOf(n) = {}

ScanOrigins == {"timeout", "run", "request-all-image-data"}

BatchMessages ==
    { i \in 1 .. Len(emitted) : emitted[i].type = "selection-image-data-batch" }

\* C7 (empty selection): a scan of a selection that is empty or holds no
\* image-bearing node, begun by the debounce timeout, by run or by
\* request-all-image-data, finds no candidate and posts one
\* selection-image-data-batch message with empty imagesData in the same step;
\* it emits no error notice and calls no asset fetch.
C7_EmptySelection ==
    last.handler \in ScanOrigins /\ last.step = "begin" /\ NoImageBearingNode =>
        /\ last.outcome = "finished"
        /\ Cardinality(BatchMessages) = 1
        /\ \A i \in BatchMessages : emitted[i].imagesData = << >>
        /\ \A i \in 1 .. Len(emitted) :
              /\ emitted[i].kind # "call"
              /\ emitted[i].kind # "notify"
              /\ emitted[i].type = "selection-change" => emitted[i].selectedNodeCount = 0
        /\ \A k \in 1 .. Len(frames) : frames[k].candidates # << >>

C7_Witness ==
    /\ last.handler = "timeout"
    /\ last.step = "begin"
    /\ selection = << 3 >>
    /\ NoImageBearingNode
    /\ Cardinality(BatchMessages) = 1


\* ------------------------------------------------ optimize-images, no image
\* C11 (optimize-images without a candidate): the step emits one error notice
\* and nothing else, posts no process-image-data message, hands the UI no
\* work, and leaves totalImagesToProcess and processedImageCount as they were.
C11_NoImagesAbort ==
    [][(last'.handler = "optimize-images" /\ last'.candidates = 0) =>
          /\ Len(emitted') = 1
          /\ emitted'[1].kind = "notify" /\ emitted'[1].error
          /\ \A i \in 1 .. Len(emitted') : emitted'[i].kind # "post"
          /\ uiPending' = uiPending
          /\ totalImagesToProcess' = totalImagesToProcess
          /\ processedImageCount' = processedImageCount
          /\ nodes' = nodes]_vars

\* The abort happened while a batch of two was half done.
C11_Witness ==
    /\ last.handler = "optimize-images"
    /\ last.candidates = 0
    /\ totalImagesToProcess = 2
    /\ processedImageCount = 1
    /\ BagSize(uiPending) > 0

\* ------------------------- optimize-images of the earlier controller
\* The earlier controller (code.ts, part_000) scans the selection itself and
\* fetches every candidate's bytes before it posts the candidate.
\* Most messages the UI has not answered when a batch of this kind starts.
MaxUnanswered == 3

ProcessImageData(candidate, fmt) ==
    Post("process-image-data",
         [imageNodeId |-> candidate.nodeId, imageBytes |-> candidate.imageHash,
          targetFormat |-> fmt])

\* catch (e) { figma.notify(..., { error: true }) }
\* A slip: the candidate is posted in the catch block as well.
FetchRejected_PostsAnyway(candidate, fmt) ==
    << Notify("load-failed", TRUE), ProcessImageData(candidate, fmt) >>

FetchRejected(candidate, fmt) == << Notify("load-failed", TRUE) >>

\* What became of the candidates before position j when the loop went from
\* position i to j: those in between had no asset.
Unresolved(results, i, j) == results \o [x \in 1 .. (j - i) |-> "unresolved"]

\* for (const candidate of imagesToProcessCandidates) from candidate i on, up
\* to its next await or past the last candidate; posted and results are the
\* history of this execution.
OptimizeLoop(candidates, i, fmt, posted, results, missing, pre, step) ==
    LET j == NextFetch(candidates, i, missing)
    IN IF j <= Len(candidates)
       THEN /\ frames' = << [kind |-> "optimize", candidates |-> candidates, i |-> j,
                            fmt |-> fmt, posted |-> posted,
                            results |-> Unresolved(results, i, j)] >>
            /\ emitted' = pre \o LookupCalls(candidates, i, j) \o
                  << Call("getBytesAsync", [imageHash |-> candidates[j].imageHash]) >>
            /\ last' = [handler |-> "optimize-images", outcome |-> "suspended",
                        step |-> step, candidates |-> Len(candidates)]
       ELSE /\ frames' = << >>
            /\ emitted' = pre \o LookupCalls(candidates, i, j)
            /\ last' = [handler |-> "optimize-images", outcome |-> "finished",
                        step |-> step, candidates |-> Len(candidates),
                        scanned |-> candidates, fmt |-> fmt, posted |-> posted,
                        results |-> Unresolved(results, i, j)]

\* msg.type === 'optimize-images', up to the first await
OptimizeImagesRescan(fmt, missing) ==
    LET imagesToProcessCandidates == getUniqueImageCandidatesFlat(selection)
    IN /\ frames = << >>
       /\ BagSize(uiPending) + Len(imagesToProcessCandidates) <= MaxUnanswered
       /\ IF Len(imagesToProcessCandidates) = 0
          THEN /\ emitted' = << Notify("no-images", TRUE) >>
               /\ last' = [handler |-> "optimize-images", outcome |-> "aborted",
                           step |-> "begin", candidates |-> 0]
               /\ UNCHANGED << totalImagesToProcess, processedImageCount, frames >>
          ELSE /\ totalImagesToProcess' = Len(imagesToProcessCandidates)
               /\ processedImageCount' = 0
               /\ OptimizeLoop(imagesToProcessCandidates, 1, fmt, << >>, << >>, missing,
                               << Notify("optimizing", FALSE) >>, "begin")
       /\ UNCHANGED << scanVars, timerVars, uiPending, hist >>

\* const bytes = await image.getBytesAsync() settles: the candidate is posted,
\* or the catch block notifies; the loop goes on.
OptimizeImagesResume(outcome, missing) ==
    LET f == frames[1]
        candidate == f.candidates[f.i]
    IN /\ frames # << >>
       /\ f.kind = "optimize"
       /\ IF outcome = "resolves"
          THEN /\ OptimizeLoop(f.candidates, f.i + 1, f.fmt,
                               Append(f.posted, ProcessImageData(candidate, f.fmt)),
                               Append(f.results, "posted"), missing,
                               << ProcessImageData(candidate, f.fmt) >>, "resume")
               /\ uiPending' = WithWork(uiPending, << candidate >>, f.fmt)
          ELSE /\ OptimizeLoop(f.candidates, f.i + 1, f.fmt,
                               f.posted \o SelectSeq(FetchRejected(candidate, f.fmt),
                                                     LAMBDA e : e.kind = "post"),
                               Append(f.results, "rejected"), missing,
                               FetchRejected(candidate, f.fmt), "resume")
               /\ uiPending' = uiPending
       /\ UNCHANGED << scanVars, timerVars, totalImagesToProcess,
                       processedImageCount, hist >>

\* The selection is the frame, the rectangle, the mixed text node or frame
\* and rectangle; the UI answers with image-optimization-failed only.
InitRescan ==
    /\ nodes = OrchDocument
    /\ live = NodeIds
    /\ selection \in OrchSelections
    /\ scanResult = NoScan
    /\ InitRouter
    /\ InitTimers

NextRescan ==
    \/ \E fmt \in OrchFormats, missing \in SUBSET Hashes : OptimizeImagesRescan(fmt, missing)
    \/ \E o \in {"resolves", "rejects"}, missing \in SUBSET Hashes :
          OptimizeImagesResume(o, missing)
    \/ \E k \in WorkKeys : UiFails(k)

SpecRescan == InitRescan /\ [][NextRescan]_vars

\* The posts of the candidates whose fetch resolved, in candidate order.
PostsOf(scanned, results, fmt) ==
    LET kept == SelectSeq([i \in 1 .. Len(scanned) |-> i],
                          LAMBDA i : results[i] = "posted")
    IN [x \in 1 .. Len(kept) |-> ProcessImageData(scanned[kept[x]], fmt)]

\* C12 (optimize-images with N >= 1 candidates, as amended): the step that
\* begins the handler sets the counter to (N, 0); when the handler has
\* finished it has posted one process-image-data message for every candidate
\* whose asset resolved and whose bytes were fetched, in candidate order,
\* and none for a candidate whose asset was missing or whose fetch rejected.
C12_DispatchFetched ==
    [][/\ (/\ last'.handler = "optimize-images"
           /\ last'.step = "begin"
           /\ last'.candidates >= 1) =>
              /\ totalImagesToProcess' = last'.candidates
              /\ processedImageCount' = 0
       /\ (last'.handler = "optimize-images" /\ last'.outcome = "finished") =>
              /\ Len(last'.results) = last'.candidates
              /\ last'.posted = PostsOf(last'.scanned, last'.results, last'.fmt)
              /\ Len(last'.posted) <= last'.candidates]_vars

\* Of three candidates one was posted, one had no asset, one fetch rejected.
C12_Witness ==
    /\ last.handler = "optimize-images"
    /\ last.outcome = "finished"
    /\ last.candidates = 3
    /\ \E p \in 1 .. 3 : last.results[p] = "posted"
    /\ \E p \in 1 .. 3 : last.results[p] = "unresolved"
    /\ \E p \in 1 .. 3 : last.results[p] = "rejected"

\* C12 as stated: N messages in all, whatever resolving and fetching did.
C12_DispatchesAll ==
    (last.handler = "optimize-images" /\ last.outcome = "finished") =>
        Len(last.posted) = last.candidates

\* ------------------------------------------------------- the apply step
\* The counter when a completion arrives: no batch, a batch of two with none
\* or one completed.
ApplyCounters == { << 0, 0 >>, << 2, 0 >>, << 2, 1 >> }

\* Node 1 is of any kind with any fills, and may have been deleted with the
\* nodes below it since the batch was dispatched.
InitApply ==
    /\ nodes \in SweepDocuments
    /\ \E gone \in BOOLEAN :
          live = IF gone THEN NodeIds \ ({1} \cup DescendantsOf(1)) ELSE NodeIds
    /\ selection = << >>
    /\ scanResult = NoScan
    /\ \E c \in ApplyCounters :
          totalImagesToProcess = c[1] /\ processedImageCount = c[2]
    /\ frames = << >>
    /\ uiPending = NoWork
    /\ emitted = << >>
    /\ last = Idle
    /\ hist = NoHist
    /\ InitTimers

\* The UI sends image-optimization-complete for node 1.
ApplyCompletionArrives(fmt, resized) ==
    /\ ImageOptimizationCompleteStart(1, fmt, "n1", resized)
    /\ uiPending' = uiPending

NextApply ==
    \/ \E fmt \in OrchFormats, r \in BOOLEAN : ApplyCompletionArrives(fmt, r)
    \/ \E k \in 1 .. MaxFrames, o \in {"ok", "createImage-throws", "resize-throws"} :
          k <= Len(frames) /\ ImageOptimizationCompleteResume(k, o)

SpecApply == InitApply /\ [][NextApply]_vars

\* The step finished an image-optimization-complete whose node is gone or
\* fails the eligibility test.
ApplyRefused ==
    /\ last'.handler = "image-optimization-complete"
    /\ last'.outcome \notin {"suspended", "ignored"}
    /\ \/ last'.nodeId \notin live
       \/ ~isImageOptimizableNode(nodes[last'.nodeId])

\* C13 (apply failure): an image-optimization-complete for PNG or JPG whose
\* node is gone or not eligible emits exactly one error notice and nothing
\* else, calls figma.createImage not at all, changes no node and leaves both
\* counts of the progress counter as they were.
C13_ApplyFailure ==
    [][ApplyRefused =>
          /\ Len(emitted') = 1
          /\ emitted'[1].kind = "notify" /\ emitted'[1].error
          /\ nodes' = nodes
          /\ totalImagesToProcess' = totalImagesToProcess
          /\ processedImageCount' = processedImageCount]_vars

\* A completion for a deleted image rectangle was refused with one of two done.
C13_Witness ==
    /\ last.handler = "image-optimization-complete"
    /\ last.outcome = "rejected"
    /\ 1 \notin live
    /\ isImageOptimizableNode(nodes[1])
    /\ totalImagesToProcess = 2
    /\ processedImageCount = 1

\* A completion for a node that exists but has mixed fills was refused.
C13_WitnessIneligible ==
    /\ last.handler = "image-optimization-complete"
    /\ last.outcome = "rejected"
    /\ 1 \in live
    /\ nodes[1].fills.kind = "mixed"

\* ------------------------------------------------ unrecognized commands
\* C14 (unrecognized commands): a message whose type no branch tests for
\* leaves the progress counter, the debounce handle and the host's timeouts,
\* the document and the selection, the suspended handlers and the UI's work
\* as they were, and posts and notifies nothing.
C14_UnknownCommand ==
    [][(last'.handler = "else" /\ last'.type \notin HandledTypes) =>
          /\ emitted' = << >>
          /\ totalImagesToProcess' = totalImagesToProcess
          /\ processedImageCount' = processedImageCount
          /\ selectionChangeDebounceTimer' = selectionChangeDebounceTimer
          /\ timers' = timers
          /\ nodes' = nodes /\ live' = live /\ selection' = selection
          /\ frames' = frames
          /\ uiPending' = uiPending]_vars

\* An unknown message arrived while an apply was suspended and a batch of
\* two was half done.
C14_Witness ==
    /\ last.handler = "else"
    /\ last.type = "image-export-complete-from-ui"
    /\ frames # << >>
    /\ totalImagesToProcess = 2
    /\ processedImageCount = 1

\* ----------------------------------------- handleSelectionChange's messages
PositionsOfType(out, type) == { i \in 1 .. Len(out) : out[i].type = type }

\* What a step of an execution of handleSelectionChange emits: its first
\* step posts selection-change with the number of candidates of its scan
\* before anything else, and no later step posts one; the step that ends it
\* posts the one batch message last, no other step posts one; the batch
\* holds at most as many records as the execution announced, none if that
\* was 0.
HandleSelectionChangeStep ==
    LET changes == PositionsOfType(emitted', "selection-change")
        batches == PositionsOfType(emitted', "selection-image-data-batch")
    IN last'.handler \in {"run", "timeout"} =>
          /\ IF last'.step = "begin"
             THEN /\ changes = {1}
                  /\ emitted'[1].selectedNodeCount =
                        Len(getUniqueImageCandidates(selection))
                  /\ last'.count = emitted'[1].selectedNodeCount
             ELSE changes = {}
          /\ IF last'.outcome = "finished"
             THEN /\ batches = { Len(emitted') }
                  /\ Len(emitted'[Len(emitted')].imagesData) <= last'.count
                  /\ last'.count = 0 => emitted'[Len(emitted')].imagesData = << >>
             ELSE batches = {}

\* C15 (selection-changed effect): every execution of handleSelectionChange
\* posts selection-change once, in its first step, with the candidate count
\* of its scan, and selection-image-data-batch once, in its last step and
\* after the selection-change; the batch is empty when the count is 0 and
\* never longer than the count; and every execution that is suspended at an
\* await reaches its last step.
C15_SelectionChanged ==
    /\ [][HandleSelectionChangeStep]_vars
    /\ \A origin \in {"run", "timeout"} :
          (\E k \in 1 .. Len(frames) :
              frames[k].kind = "scan" /\ frames[k].origin = origin)
          ~> (last.handler = origin /\ last.outcome = "finished")

\* A timeout's execution announced one candidate, was suspended, and ended
\* with a batch of one record.
C15_Witness ==
    /\ last.handler = "timeout"
    /\ last.outcome = "finished"
    /\ last.step = "resume"
    /\ last.count = 1
    /\ Len(emitted[Len(emitted)].imagesData) = 1

\* ------------------------------------------ sendAllImageDataToUI's batch
\* The selection holds the frame, the rectangle with two images, or both;
\* run and request-all-image-data scan it.
InitBatch ==
    /\ nodes = OrchDocument
    /\ live = NodeIds
    /\ selection \in { << 1 >>, << 2 >>, << 1, 2 >> }
    /\ scanResult = NoScan
    /\ InitRouter
    /\ InitTimers

NextBatch ==
    \/ \E missing \in SUBSET Hashes : RequestAllImageData(missing)
    \/ \E missing \in SUBSET Hashes : RunEvent(missing)
    \/ AwaitSettles

SpecBatch == InitBatch /\ [][NextBatch]_vars

\* The records are made of candidates of the list, in the list's order.
InOrderOf(records, candidates) ==
    \E f \in [1 .. Len(records) -> 1 .. Len(candidates)] :
        /\ \A i, j \in 1 .. Len(records) : i < j => f[i] < f[j]
        /\ \A i \in 1 .. Len(records) :
              /\ records[i].nodeId = candidates[f[i]].nodeId
              /\ records[i].imageHash = candidates[f[i]].imageHash

\* The candidate list of the execution the step belongs to.
CandidatesOfStep ==
    IF last'.step = "begin" THEN { getUniqueImageCandidates(selection) }
    ELSE { frames[k].candidates :
             k \in { x \in 1 .. Len(frames) : frames' = RemoveAt(frames, x) } }

\* C16 (batch semantics): a step of a call of sendAllImageDataToUI posts a
\* selection-image-data-batch message only if it is the call's last step,
\* then exactly one and as the last thing it emits, whether assets were
\* missing or fetches rejected; the records of the batch are records of the
\* call's candidates, in the order of the candidates.
C16_BatchSemantics ==
    [][(last'.handler \in ScanOrigins /\ last'.count >= 1) =>
          IF last'.outcome = "finished"
          THEN /\ PositionsOfType(emitted', "selection-image-data-batch")
                     = { Len(emitted') }
               /\ \E c \in CandidatesOfStep :
                     /\ Len(c) = last'.count
                     /\ InOrderOf(emitted'[Len(emitted')].imagesData, c)
          ELSE PositionsOfType(emitted', "selection-image-data-batch") = {}]_vars

\* A call with three candidates ended in a batch of a loaded record and a
\* placeholder: one asset was missing, one fetch rejected.
C16_Witness ==
    /\ last.handler = "request-all-image-data"
    /\ last.outcome = "finished"
    /\ last.count = 3
    /\ LET imagesData == emitted[Len(emitted)].imagesData
       IN /\ Len(imagesData) = 2
          /\ imagesData[1].fileType = "PNG"
          /\ imagesData[2].fileType = "UNKNOWN"

\* ------------------------------------------- image-optimization-failed
\* The step counted a completion as the completion handlers do.
CountedOne ==
    IF processedImageCount + 1 = totalImagesToProcess
    THEN totalImagesToProcess' = 0 /\ processedImageCount' = 0
    ELSE /\ totalImagesToProcess' = totalImagesToProcess
         /\ processedImageCount' = processedImageCount + 1

\* C17 (image-optimization-failed never aborts the batch): the handler emits
\* one error notice and nothing else and leaves the progress counter, the
\* document, the suspended handlers and the other work of the UI as they
\* were; an image-optimization-complete that finishes right after it for an
\* eligible node is not refused, and unless the host throws it registers the
\* image, gives the node its hash and is counted.
C17_FailureKeepsBatch ==
    [][/\ last'.handler = "image-optimization-failed" =>
             /\ Len(emitted') = 1
             /\ emitted'[1].kind = "notify" /\ emitted'[1].error
             /\ totalImagesToProcess' = totalImagesToProcess
             /\ processedImageCount' = processedImageCount
             /\ nodes' = nodes /\ live' = live
             /\ frames' = frames
             /\ BagSize(uiPending') = BagSize(uiPending) - 1
       /\ (/\ last.handler = "image-optimization-failed"
           /\ last'.handler = "image-optimization-complete"
           /\ last'.outcome \notin {"suspended", "ignored"}
           /\ last'.nodeId \in live
           /\ isImageOptimizableNode(nodes[last'.nodeId])) =>
             /\ last'.outcome \in {"applied", "threw"}
             /\ last'.outcome = "applied" =>
                   /\ CountedOne
                   /\ emitted'[1].kind = "call" /\ emitted'[1].type = "createImage"
                   /\ \E i \in 1 .. Len(nodes'[last'.nodeId].fills.list) :
                         nodes'[last'.nodeId].fills.list[i].imageHash = emitted'[1].hash]_vars

\* Of a batch of two, one image failed in the UI while the other's apply was
\* suspended; the apply then finished and was counted.
C17_Witness ==
    /\ last.handler = "image-optimization-complete"
    /\ last.outcome = "applied"
    /\ last.afterFailure
    /\ totalImagesToProcess = 2
    /\ processedImageCount = 1

\* ------------------------------------- the apply step of code.ts
\* node && 'fills' in node && Array.isArray(node.fills) && (node.type === ...)
isAppliedTo(node) ==
    /\ node # NullNode
    /\ "fills" \in PropsOf(node.type)
    /\ node.fills.kind = "array"
    /\ node.type \in {"RECTANGLE", "ELLIPSE", "POLYGON", "STAR", "VECTOR", "TEXT"}

\* for (const fill of node.fills): an image paint gets the new hash when the
\* scan of the node has a candidate with the paint's hash.
ReplaceMatching(list, id, newHash) ==
    LET candidates == getUniqueImageCandidatesFlat(<< id >>)
    IN [i \in 1 .. Len(list) |->
          IF /\ list[i].type = "IMAGE"
             /\ \E x \in 1 .. Len(candidates) :
                   /\ candidates[x].nodeId = id
                   /\ candidates[x].imageHash = list[i].imageHash
          THEN [list[i] EXCEPT !.imageHash = newHash]
          ELSE list[i]]

\* msg.type === 'image-optimization-complete' of code.ts, up to the await
CompleteArrives(imageNodeId, newHash) ==
    /\ Len(frames) < MaxFrames
    /\ frames' = Append(frames, [kind |-> "apply-all", nodeId |-> imageNodeId,
                                 newHash |-> newHash])
    /\ emitted' = << >>
    /\ last' = [handler |-> "image-optimization-complete", outcome |-> "suspended"]
    /\ UNCHANGED << scanVars, timerVars, totalImagesToProcess, processedImageCount,
                    uiPending, hist >>

\* the same, after the await
CompleteResume(k, outcome) ==
    LET frame == frames[k]
        node == getNodeById(frame.nodeId)
        c == CountOne("optimize-complete")
    IN /\ frame.kind = "apply-all"
       /\ outcome \in {"ok", "createImage-throws"}
       /\ processedImageCount < MaxCount
       /\ frames' = RemoveAt(frames, k)
       /\ IF ~isAppliedTo(node)
          THEN /\ emitted' = << Notify("node-not-found", TRUE) >>
               /\ last' = [handler |-> "image-optimization-complete",
                           outcome |-> "rejected", nodeId |-> frame.nodeId,
                           afterFailure |-> AfterFailure]
               /\ UNCHANGED << nodes, totalImagesToProcess, processedImageCount >>
          ELSE IF outcome = "createImage-throws"
          THEN /\ emitted' = << Notify("update-failed", TRUE) >>
               /\ last' = [handler |-> "image-optimization-complete",
                           outcome |-> "threw", nodeId |-> frame.nodeId,
                           afterFailure |-> AfterFailure]
               /\ UNCHANGED << nodes, totalImagesToProcess, processedImageCount >>
          ELSE /\ nodes' = [nodes EXCEPT ![frame.nodeId].fills.list =
                               ReplaceMatching(@, frame.nodeId, frame.newHash)]
               /\ emitted' = << Call("createImage", [hash |-> frame.newHash]) >> \o c.out
               /\ totalImagesToProcess' = c.total
               /\ processedImageCount' = c.processed
               /\ last' = [handler |-> "image-optimization-complete",
                           outcome |-> "applied", nodeId |-> frame.nodeId,
                           afterFailure |-> AfterFailure]
       /\ UNCHANGED << live, selection, scanResult, timerVars, uiPending, hist >>

NextApplyAll ==
    \/ CompleteArrives(1, "n1")
    \/ \E k \in 1 .. MaxFrames, o \in {"ok", "createImage-throws"} :
          k <= Len(frames) /\ CompleteResume(k, o)

SpecApplyAll == InitApply /\ [][NextApplyAll]_vars

\* The first paint of the list that is an image with a hash; 0 without one.
FirstImage(list) ==
    LET images == { i \in 1 .. Len(list) : IsImageFillWithHash(list[i]) }
    IN IF images = {} THEN 0 ELSE CHOOSE i \in images : \A j \in images : i <= j

\* The step applied a completion to its node and changed one paint only: the
\* first image paint with a hash has the registered hash, the list is as
\* long as before and every other paint is the paint it was.
OneFillReplaced ==
    (last'.handler = "image-optimization-complete" /\ last'.outcome = "applied") =>
        LET old == nodes[last'.nodeId].fills.list
            new == nodes'[last'.nodeId].fills.list
        IN /\ Len(new) = Len(old)
           /\ \A i \in 1 .. Len(old) :
                 IF i = FirstImage(old)
                 THEN new[i] = [old[i] EXCEPT !.imageHash = emitted'[1].hash]
                 ELSE new[i] = old[i]
           /\ \A n \in NodeIds \ {last'.nodeId} : nodes'[n] = nodes[n]

\* C18 (in-place apply replaces one fill only): a successful apply changes
\* the first image paint with a hash and no other paint of the node.
C18_ReplacesOneFill == [][OneFillReplaced]_vars

\* Both image paints of a node carry the registered hash.
C18_Witness ==
    /\ last.handler = "image-optimization-complete"
    /\ last.outcome = "applied"
    /\ Len(nodes[1].fills.list) = 2
    /\ nodes[1].fills.list[1] = ImageFill("n1")
    /\ nodes[1].fills.list[2] = ImageFill("n1")

\* ------------------------------------------------ webp-export-complete
\* C19 (export-only completion): webp-export-complete posts exactly one
\* trigger-download message, before anything else, with the file name made
\* of the message's name and target format, the message's bytes as payload
\* and optimizedSize the number of those bytes; it changes no node, and it
\* counts one completion: the completed count goes up by one, or both counts
\* go to 0 with one aggregate notice when that reaches total.
C19_ExportOnly ==
    [][last'.handler = "webp-export-complete" =>
          /\ PositionsOfType(emitted', "trigger-download") = {1}
          /\ \A i \in 2 .. Len(emitted') : emitted'[i].kind = "notify"
          /\ emitted'[1].fileName = downloadFileName(last'.name, last'.targetFormat)
          /\ emitted'[1].bytes = last'.optimizedBytes
          /\ emitted'[1].optimizedSize = Len(last'.optimizedBytes)
          /\ nodes' = nodes /\ live' = live
          /\ CountedOne
          /\ AggregateCount(emitted') =
                IF processedImageCount + 1 = totalImagesToProcess THEN 1 ELSE 0]_vars

\* The first of two exports arrived with a payload of four bytes.
C19_Witness ==
    /\ last.handler = "webp-export-complete"
    /\ emitted[1].optimizedSize = 4
    /\ Len(emitted[1].bytes) = 4
    /\ totalImagesToProcess = 2
    /\ processedImageCount = 1

\* ------------------------------------------------------------ resize-ui
minHeight == 100

\* A slip: Math.min for Math.max.
MathMax_Min(a, b) == IF a <= b THEN a ELSE b

MathMax(a, b) == IF a >= b THEN a ELSE b

\* msg.type === 'resize-ui'
ResizeUi(width, height) ==
    LET adjustedHeight == MathMax(minHeight, height)
    IN /\ emitted' = << Call("resize", [width |-> width, height |-> adjustedHeight]) >>
       /\ last' = [handler |-> "resize-ui", outcome |-> "resized",
                   width |-> width, height |-> height]
       /\ UNCHANGED << scanVars, timerVars, totalImagesToProcess, processedImageCount,
                       frames, uiPending, hist >>

\* The sizes the UI asks for: heights on both sides of the minimum and at
\* it, none, and a negative one.
ResizeWidths == { 0, 240, 300 }
ResizeHeights == { -1, 0, 99, 100, 101, 150 }

\* The UI resizes its window while batches are dispatched and fail.
NextResize ==
    \/ \E width \in ResizeWidths, height \in ResizeHeights : ResizeUi(width, height)
    \/ \E list \in BatchLists, fmt \in OrchFormats : OptimizeImages(list, fmt)
    \/ \E k \in WorkKeys : UiFails(k)

SpecResize == InitSpec /\ [][NextResize]_vars

\* C20 (resize-ui): the handler calls figma.ui.resize once, with the width of
\* the message and with the height of the message or 100, whichever is
\* larger; the height passed is never below 100; it emits nothing else and
\* changes neither counter, timer, document, suspended handler nor the UI's
\* work.
C20_ResizeUi ==
    [][last'.handler = "resize-ui" =>
          /\ Len(emitted') = 1
          /\ emitted'[1].kind = "call" /\ emitted'[1].type = "resize"
          /\ emitted'[1].width = last'.width
          /\ emitted'[1].height >= 100
          /\ emitted'[1].height = IF last'.height > 100 THEN last'.height ELSE 100
          /\ UNCHANGED << scanVars, timerVars, totalImagesToProcess,
                          processedImageCount, frames, uiPending >>]_vars

\* A height of 99 was raised to 100 while a batch of two was in flight.
C20_Witness ==
    /\ last.handler = "resize-ui"
    /\ last.height = 99
    /\ emitted[1].height = 100
    /\ emitted[1].width = 240
    /\ totalImagesToProcess = 2

\* A height above the minimum was passed on as it was.
C20_WitnessAbove ==
    /\ last.handler = "resize-ui"
    /\ last.height = 150
    /\ emitted[1].height = 150

\* ------------------------------------------------------ stale completions
\* C21 (stale completions): a step that starts a batch of N sets the counter
\* to (N, 0) and leaves the suspended applies and the unanswered messages of
\* earlier batches outstanding; an image-optimization-complete of an earlier
\* batch that is applied right after that start is counted in the new pair:
\* completed becomes 1, or, when N = 1, the aggregate notice is emitted and
\* the counter reset while all N messages of the new batch are unanswered.
C21_StaleCompletions ==
    [][/\ last'.outcome = "dispatched" =>
             /\ totalImagesToProcess' = last'.candidates
             /\ processedImageCount' = 0
             /\ frames' = frames
             /\ \A k \in WorkKeys : uiPending'[k] >= uiPending[k]
             /\ BagSize(uiPending') = BagSize(uiPending) + last'.candidates
       /\ (/\ AfterStart
           /\ last'.handler = "image-optimization-complete"
           /\ last'.outcome = "applied") =>
             /\ BagSize(uiPending') >= last.candidates
             /\ IF last.candidates = 1
                THEN /\ AggregateCount(emitted') = 1
                     /\ totalImagesToProcess' = 0
                     /\ processedImageCount' = 0
                ELSE /\ AggregateCount(emitted') = 0
                     /\ totalImagesToProcess' = last.candidates
                     /\ processedImageCount' = 1]_vars

\* The apply of an earlier batch finished right after an export batch of one
\* was started: the notice is out and the export's message is unanswered.
C21_Witness ==
    /\ last.handler = "image-optimization-complete"
    /\ last.outcome = "applied"
    /\ last.afterStart
    /\ AggregateCount(emitted) = 1
    /\ \E k \in WorkKeys : k[2] = "WebP" /\ uiPending[k] > 0
    /\ totalImagesToProcess = 0

\* ------------------------------------------------ a batch with a failure
\* The work that can still be counted: the messages the UI has not answered
\* and the applies that are suspended.
Outstanding == BagSize(uiPending) + Cardinality(ApplyFrames)

\* The outstanding work is no more than the batch still lacks: no event of
\* another batch is to come.
WorkFitsBatch ==
    totalImagesToProcess > 0 /\ processedImageCount + Outstanding <= totalImagesToProcess

\* The outstanding work cannot complete the batch.
BatchCannotComplete ==
    totalImagesToProcess > 0 /\ processedImageCount + Outstanding < totalImagesToProcess

\* The step ended an item in a failure: image-optimization-failed, or an
\* apply that was refused or threw.
ItemFailed ==
    \/ last'.handler = "image-optimization-failed"
    \/ /\ last'.handler = "image-optimization-complete"
       /\ last'.outcome \in {"rejected", "threw"}

\* C22 (a batch with a failure never completes): when the outstanding work
\* is no more than the batch lacks, an item that ends in a failure leaves
\* less work than the batch lacks; from then on, until a step starts a new
\* batch, no step emits the aggregate notice, total stays as it is and
\* completed stays below it.
C22_FailedBatchNeverCompletes ==
    [][/\ (WorkFitsBatch /\ ItemFailed) => BatchCannotComplete'
       /\ (BatchCannotComplete /\ last'.outcome # "dispatched") =>
             /\ BatchCannotComplete'
             /\ AggregateCount(emitted') = 0
             /\ totalImagesToProcess' = totalImagesToProcess
             /\ processedImageCount' < totalImagesToProcess']_vars

\* Of a batch of two, one item was applied and one failed in the UI; nothing
\* is outstanding and the counter rests at one of two.
C22_Witness ==
    /\ last.handler = "image-optimization-failed"
    /\ totalImagesToProcess = 2
    /\ processedImageCount = 1
    /\ Outstanding = 0

\* ------------------------------------------------------------------ C23
\* Every execution suspended before the step is suspended after it at the
\* same place: the step is one of another handler, or the passing of time.
StaysSuspended ==
    /\ Len(frames) > 0
    /\ Len(frames') >= Len(frames)
    /\ \A k \in 1 .. Len(frames) : frames'[k] = frames[k]

\* C23 (concurrency): while a handler is suspended at an await (getBytesAsync,
\* base64Encode, getNodeByIdAsync) no step of another handler changes the
\* progress counter or the handle of the debounce timer, so both have at the
\* resumption the values they had at the suspension.
C23_NoConcurrentMutation ==
    [][StaysSuspended =>
          /\ totalImagesToProcess' = totalImagesToProcess
          /\ processedImageCount' = processedImageCount
          /\ selectionChangeDebounceTimer' = selectionChangeDebounceTimer]_vars

\* A selectionchange event was handled while handleSelectionChange is
\* suspended, and its timeout is the one the handle names.
C23_Witness ==
    /\ Scanning
    /\ last.handler = "selectionchange"
    /\ selectionChangeDebounceTimer # 0
    /\ \E t \in timers : t.id = selectionChangeDebounceTimer

\* ------------------------------------------------------------------ C24
\* The step is one of the execution of handleSelectionChange a timeout began.
TimeoutScanStep(step, outcome) ==
    /\ last'.handler = "timeout"
    /\ last'.step = step
    /\ last'.outcome = outcome

\* C24 (temporal): when the debounce timeout fires the handle is cleared before
\* the scan runs, so the handle is empty while the scan is suspended; and when
\* a selectionchange event was handled during the suspension, the handle of
\* the timeout it armed is still recorded after the step that finishes the
\* scan.
C24_ClearsHandleFirst ==
    [][/\ TimeoutScanStep("begin", "suspended") => selectionChangeDebounceTimer' = 0
       /\ (/\ Scanning
           /\ last.handler = "selectionchange"
           /\ TimeoutScanStep("resume", "finished")) =>
             selectionChangeDebounceTimer' = selectionChangeDebounceTimer]_vars

\* The scan a timeout began has finished after its await, a timeout is
\* pending and no handle is recorded.
C24_Witness ==
    /\ last.handler = "timeout"
    /\ last.step = "resume"
    /\ last.outcome = "finished"
    /\ timers # {}
    /\ selectionChangeDebounceTimer = 0

\* ------------------------------------------------------------------ C25
\* The candidates of the scan are owned by allow-listed nodes, none by a
\* GROUP, and every image of an eligible node below a selected GROUP has its
\* candidate.
AllowListed(list) ==
    /\ \A i \in 1 .. Len(list) : nodes[list[i].nodeId].type \in AllowedTypes
    /\ \A i \in 1 .. Len(list) : nodes[list[i].nodeId].type # "GROUP"
    /\ \A g \in Selected :
          nodes[g].type = "GROUP" =>
             \A d \in DescendantsOf(g) :
                isImageCapableNode(nodes[d]) =>
                   \A h \in ImageHashesOf(d) : PositionsOf(d, h) # {}

\* C25 (safety): every candidate a scan returns is owned by a node of kind
\* RECTANGLE, ELLIPSE, POLYGON, STAR, VECTOR, TEXT, FRAME, COMPONENT or
\* INSTANCE; a GROUP owns no candidate, and the eligible descendants of a
\* selected GROUP are candidates.
C25_AllowList == scanResult.by # "none" => AllowListed(scanResult.list)

\* The flat scan returned a candidate of a node outside of the allow-list.
C25_WitnessFlat ==
    /\ scanResult.by = "flat"
    /\ \E i \in 1 .. Len(scanResult.list) :
          nodes[scanResult.list[i].nodeId].type \notin AllowedTypes

\* ------------------------------------------------------------------ C26
\* The (node, hash) pairs of the image fills of the nodes the recursive scan
\* takes candidates from, in depth-first pre-order: a node's own pairs in the
\* order of its fill list, then those of its children in child order.
RECURSIVE PreOrder(_)
RECURSIVE PreOrderAll(_)
PreOrder(id) ==
    LET node == nodes[id]
        imageFills == IF isImageCapableNode(node)
                      THEN FilterImageFills(node.fills.list) ELSE << >>
    IN [i \in 1 .. Len(imageFills) |-> << id, imageFills[i].imageHash >>]
       \o (IF "children" \in PropsOf(node.type)
           THEN PreOrderAll(node.children) ELSE << >>)

PreOrderAll(ids) ==
    IF ids = << >> THEN << >> ELSE PreOrder(Head(ids)) \o PreOrderAll(Tail(ids))

\* The sequence without the later occurrences of its elements.
FirstOccurrences(seq) ==
    SelectSeq([i \in 1 .. Len(seq) |->
                  IF \E j \in 1 .. i - 1 : seq[j] = seq[i] THEN << >> ELSE << seq[i] >>],
              LAMBDA x : x # << >>)

\* C26 (functional correctness): the recursive scanner returns its candidates
\* in depth-first pre-order of the selection forest: roots in selection order,
\* a node's own candidates in fill-list order before those of its
\* descendants, children in child order; a pair met again keeps the place of
\* its first discovery.
C26_DiscoveryOrder ==
    scanResult.by = "recursive" =>
        [i \in 1 .. Len(scanResult.list) |->
            << << scanResult.list[i].nodeId, scanResult.list[i].imageHash >> >>]
        = FirstOccurrences(PreOrderAll(selection))

\* A recursive scan met a pair again and returned a candidate of a node and,
\* after it, one of a node below it.
C26_Witness ==
    /\ scanResult.by = "recursive"
    /\ Len(PreOrderAll(selection)) > Len(scanResult.list)
    /\ \E i, j \in 1 .. Len(scanResult.list) :
          /\ i < j
          /\ scanResult.list[j].nodeId \in DescendantsOf(scanResult.list[i].nodeId)

\* ------------------------------------------------------------------ C27
\* The records stand one for one for the candidates, in their order, each a
\* loaded record or the placeholder of its candidate.
OneRecordPerCandidate(records, candidates) ==
    /\ Len(records) = Len(candidates)
    /\ \A i \in 1 .. Len(records) :
          /\ i <= Len(candidates)
          /\ records[i].nodeId = candidates[i].nodeId
          /\ records[i].imageHash = candidates[i].imageHash
          /\ \/ records[i] = Placeholder(candidates[i])
             \/ records[i].fileType \in {"JPG", "PNG", "WebP"}

\* C27 (error handling): the batch sendAllImageDataToUI posts holds exactly
\* one record per candidate of its input, in the same order, a placeholder
\* (fileType 'UNKNOWN', no bytes) standing for every candidate whose asset
\* was not found or not fetched.
C27_PlaceholderPolicy ==
    [][(/\ last'.handler \in ScanOrigins
        /\ last'.count >= 1
        /\ last'.outcome = "finished") =>
          \E c \in CandidatesOfStep :
             /\ Len(c) = last'.count
             /\ OneRecordPerCandidate(emitted'[Len(emitted')].imagesData, c)]_vars

\* A call of sendAllImageDataToUI ended in a batch of fewer records than it
\* had candidates.
C27_Witness ==
    /\ last.handler \in ScanOrigins
    /\ last.outcome = "finished"
    /\ last.count >= 1
    /\ \E i \in BatchMessages : Len(emitted[i].imagesData) < last.count

\* ------------------------------------------------------------------ C28
\* A batch of in-place work that began with nothing in flight had every one
\* of its two or more completions applied; such a batch holds both images of
\* node 2.
WholeBatchApplied ==
    /\ hist.clean
    /\ hist.batch >= 2
    /\ hist.delivered = hist.batch
    /\ hist.failed = 0

\* The node with two images of distinct hashes, and its fills in the document
\* as it was opened.
MultiFillNode ==
    CHOOSE n \in NodeIds :
        LET images == FilterImageFills(OrchDocument[n].fills.list)
        IN /\ Len(images) >= 2
           /\ \A i, j \in 1 .. Len(images) :
                 i # j => images[i].imageHash # images[j].imageHash
OriginalFills == OrchDocument[MultiFillNode].fills.list

\* C28 (safety): after all completions of a batch were applied to a node with
\* k >= 2 image fills of distinct hashes, only the first image fill of the
\* node differs from its original hash, it carries the hash of the completion
\* applied last, and the other image fills hold their original hashes.
C28_MultiFillBatch ==
    WholeBatchApplied =>
        LET list == nodes[MultiFillNode].fills.list
            first == FirstImage(OriginalFills)
        IN /\ Len(list) = Len(OriginalFills)
           /\ \A i \in 1 .. Len(list) : i # first => list[i] = OriginalFills[i]
           /\ list[first].type = "IMAGE"
           /\ list[first].imageHash # OriginalFills[first].imageHash
           /\ (/\ last.handler = "image-optimization-complete"
               /\ last.outcome = "applied"
               /\ last.nodeId = MultiFillNode)
                 => list[first].imageHash = emitted[1].hash

\* Both completions of node 2 were applied, the one of its second image
\* first: the first fill carries the hash made of the first image.
C28_Witness ==
    /\ WholeBatchApplied
    /\ hist.batch = 2
    /\ last.handler = "image-optimization-complete"
    /\ last.outcome = "applied"
    /\ last.nodeId = MultiFillNode
    /\ nodes[MultiFillNode].fills.list[1].imageHash = OptimizedHash("h1")

\* ------------------------------------------------------------------ C29
\* node.width and node.height as the host reports them: 0 (the height of a
\* line, a collapsed frame) or a positive size.
NodeSizes == {0, 100}

\* The fills of the sized documents: one image, a solid paint, figma.mixed.
SizedFills(type) ==
    IF "fills" \in PropsOf(type)
    THEN {ArrayFills(<< ImageFill("h1") >>), ArrayFills(<< SolidFill >>), MixedFills}
    ELSE {AbsentFills}

\* Documents whose nodes carry their size: node 1 is of any kind and size,
\* the other nodes are image rectangles of height 0 below it when it is a
\* container.
SizedDocuments ==
    { [n \in NodeIds |->
          IF n = 1
          THEN [type |-> t, fills |-> f, width |-> w, height |-> h,
                children |-> IF t \in ContainerTypes
                             THEN [i \in 1 .. MaxNodes - 1 |-> i + 1] ELSE << >>]
          ELSE [type |-> "RECTANGLE", fills |-> ArrayFills(<< ImageFill("h2") >>),
                width |-> w, height |-> 0, children |-> << >>]] :
        t \in NodeTypes, f \in UNION { SizedFills(x) : x \in NodeTypes },
        w \in NodeSizes, h \in NodeSizes }

InitFloor ==
    /\ nodes \in { d \in SizedDocuments : d[1].fills \in SizedFills(d[1].type) }
    /\ live = NodeIds
    /\ selection \in { << 1 >>, << 1, 2 >>, << 2 >> }
    /\ scanResult = NoScan
    /\ InitRouterIdle

SpecFloor == InitFloor /\ [][NextScan]_<< scanVars, otherVars >>

\* The owner of some candidate of the result has no width or no height.
ZeroSizedOwner ==
    \E i \in 1 .. Len(scanResult.list) :
        \/ nodes[scanResult.list[i].nodeId].width = 0
        \/ nodes[scanResult.list[i].nodeId].height = 0

\* C29 (safety), as stated: the scanner of src/code.ts rejects a node whose
\* width or height is not positive, so no candidate of its result is owned by
\* a node of width 0 or height 0.
C29_SizeFloor == scanResult.by = "flat" => ~ZeroSizedOwner

\* C29 (safety), amended: the scanner of src/code.ts tests that the node has
\* the width and height properties, not their values: every selected node
\* with a concrete fill list has a candidate for each of its image hashes,
\* whatever its width and height, 0 included.
C29_NoSizeFloor ==
    scanResult.by = "flat" =>
        \A n \in Selected :
            ("fills" \in PropsOf(nodes[n].type) /\ nodes[n].fills.kind = "array") =>
                \A h \in ImageHashesOf(n) : PositionsOf(n, h) # {}

\* The flat scan returned a candidate of a selected node of width 0 and
\* height 0.
C29_Witness ==
    /\ scanResult.by = "flat"
    /\ \E i \in 1 .. Len(scanResult.list) :
          /\ scanResult.list[i].nodeId = 1
          /\ nodes[1].width = 0
          /\ nodes[1].height = 0

\* ------------------------------------------------------------------ C30
\* C30 (invariant): between two handler steps the completed count never
\* equals a total greater than 0: the step in which the counts meet emits
\* the notice and sets both to 0.
C30_CounterNeverRests ==
    ~(processedImageCount = totalImagesToProcess /\ totalImagesToProcess > 0)

\* The last export of a batch was counted: the counts met in the step, the
\* notice was emitted and both counts are 0.
C30_Witness ==
    /\ last.handler = "webp-export-complete"
    /\ AggregateCount(emitted) = 1
    /\ processedImageCount = 0
    /\ totalImagesToProcess = 0
    /\ BagSize(uiPending) = 0
    /\ frames = << >>

\* ------------------------------------------------------------------ C31
\* C31 (invariant): in every reachable state, whatever messages came in
\* (completions with no batch in flight and export-images-as-webp with an
\* empty list included), 0 <= completed <= total.
C31_CounterBounds ==
    /\ 0 <= processedImageCount
    /\ processedImageCount <= totalImagesToProcess

\* A completion was counted while no batch was in progress: the completed
\* count is above a total of 0.
C31_Witness ==
    /\ last.handler \in {"image-optimization-complete", "webp-export-complete"}
    /\ totalImagesToProcess = 0
    /\ processedImageCount > 0

\* ------------------------------------------------------------------ C32
\* C32 (safety): on a document that does not change, every node that owns a
\* candidate of the scanner of src/code.ts passes the test the
\* image-optimization-complete handler of src/code.ts makes before it
\* applies, so every candidate counted into total can be applied.
C32_ScannerAndApplyAgree ==
    scanResult.by = "flat" =>
        \A i \in 1 .. Len(scanResult.list) :
            isAppliedTo(getNodeById(scanResult.list[i].nodeId))

\* The flat scan returned a candidate of a frame, which the apply step
\* refuses.
C32_Witness ==
    /\ scanResult.by = "flat"
    /\ \E i \in 1 .. Len(scanResult.list) :
          /\ nodes[scanResult.list[i].nodeId].type = "FRAME"
          /\ scanResult.list[i].nodeId \in live
          /\ ~isAppliedTo(getNodeById(scanResult.list[i].nodeId))

\* ------------------------------------------------------------------ C33
\* A scan that reaches no await needs no place among the suspended
\* executions: it can run while another scan is suspended.
RoomFor(missing) ==
    \/ Len(frames) < MaxFrames
    \/ LET candidates == getUniqueImageCandidates(selection)
       IN NextFetch(candidates, 1, missing) > Len(candidates)

\* msg.type === 'request-all-image-data', also while a scan is suspended.
RequestWhileScanning(missing) ==
    /\ ScanBeginIf("request-all-image-data", missing, RoomFor(missing))
    /\ UNCHANGED << scanVars, timers, sinceEvent, launched, totalImagesToProcess,
                    processedImageCount, uiPending, hist >>

\* A due timeout calls handleSelectionChange, also while a scan is suspended.
TimerFiresWhileScanning(id, missing) ==
    \E t \in timers :
        /\ t.id = id
        /\ t.remaining = 0
        /\ timers' = timers \ {t}
        /\ ScanBeginIf("timeout", missing, RoomFor(missing))
        /\ hist' = NoBurst
        /\ UNCHANGED << scanVars, sinceEvent, launched, totalImagesToProcess,
                        processedImageCount, uiPending >>

NextOverlap ==
    \/ \E sel \in DebounceSelections : SelectionChangeEvent(sel)
    \/ Tick
    \/ \E id \in 1 .. MaxTimers + 2, missing \in SUBSET Hashes :
          TimerFiresWhileScanning(id, missing)
    \/ \E missing \in SUBSET Hashes : RunEvent(missing)
    \/ \E missing \in SUBSET Hashes : RequestWhileScanning(missing)
    \/ AwaitSettles

SpecOverlap == InitDebounce /\ [][NextOverlap]_vars

\* The step begins a scan and posts its batch at once.
BeginsAndPosts ==
    /\ last'.handler \in ScanOrigins
    /\ last'.step = "begin"
    /\ last'.outcome = "finished"

\* C33 (concurrency): the batches of overlapping scans are posted in the
\* order in which the scans began: no scan posts its batch while a scan begun
\* before it is suspended in a fetch, and so the batch posted last, once no
\* scan is suspended, is the one of the scan begun last.
C33_LatestScanWins ==
    [][/\ BeginsAndPosts => \A k \in 1 .. Len(frames) : frames[k].kind # "scan"
       /\ ~(/\ last.handler \in ScanOrigins
            /\ last.step = "begin"
            /\ last.outcome = "finished"
            /\ last'.handler \in ScanOrigins
            /\ last'.step = "resume"
            /\ last'.outcome = "finished"
            /\ frames' = << >>)]_vars

\* No scan is suspended and the batch posted last, with a record, is one of
\* a scan begun before the selection was emptied.
C33_Witness ==
    /\ frames = << >>
    /\ selection = << >>
    /\ last.handler \in ScanOrigins
    /\ last.step = "resume"
    /\ last.outcome = "finished"
    /\ \E i \in BatchMessages : Len(emitted[i].imagesData) > 0

\* ------------------------------------------------------------------ C34
\* msg.type === 'external-export-complete'
\* A slip: the confirmation of a download is counted like an export.
ExternalExportComplete_Counts ==
    /\ processedImageCount < MaxCount
    /\ emitted' = << Notify("export-complete", FALSE) >> \o CountOne("webp-complete").out
    /\ totalImagesToProcess' = CountOne("webp-complete").total
    /\ processedImageCount' = CountOne("webp-complete").processed
    /\ last' = [handler |-> "external-export-complete", outcome |-> "notified"]
    /\ UNCHANGED << scanVars, timerVars, frames, uiPending, hist >>

ExternalExportComplete ==
    /\ emitted' = << Notify("export-complete", FALSE) >>
    /\ last' = [handler |-> "external-export-complete", outcome |-> "notified"]
    /\ UNCHANGED << scanVars, timerVars, totalImagesToProcess, processedImageCount,
                    frames, uiPending, hist >>

\* msg.type === 'external-export-failed'
ExternalExportFailed ==
    /\ emitted' = << Notify("export-failed", TRUE) >>
    /\ last' = [handler |-> "external-export-failed", outcome |-> "notified"]
    /\ UNCHANGED << scanVars, timerVars, totalImagesToProcess, processedImageCount,
                    frames, uiPending, hist >>

\* msg.type === 'notify': figma.notify(msg.message)
NotifyMessage ==
    /\ emitted' = << Notify("message", FALSE) >>
    /\ last' = [handler |-> "notify", outcome |-> "notified"]
    /\ UNCHANGED << scanVars, timerVars, totalImagesToProcess, processedImageCount,
                    frames, uiPending, hist >>

\* handleSelectionChange is called, by the run event or by a due timeout.
HandleSelectionChangeBegins(origin) ==
    /\ IsHandleSelectionChange(origin)
    /\ ScanBegin(origin, {})
    /\ UNCHANGED << scanVars, timers, sinceEvent, launched, totalImagesToProcess,
                    processedImageCount, uiPending, hist >>

\* The lists of the batches: none, and the image of the frame.
AllLists == { << >>, << NewCandidate(1, "h1") >> }

\* Every branch of figma.ui.onmessage and the executions of
\* handleSelectionChange, with the frame selected.
NextAll ==
    \/ \E list \in AllLists : OptimizeImages(list, "JPG")
    \/ \E list \in AllLists : ExportImagesAsWebp(list)
    \/ \E k \in WorkKeys, r \in BOOLEAN : UiCompletes(k, r)
    \/ \E k \in 1 .. MaxFrames, o \in {"ok", "resize-throws"} :
          k <= Len(frames) /\ ImageOptimizationCompleteResume(k, o)
    \/ \E k \in WorkKeys : UiExports(k, << "a", ".", "b" >>, << >>)
    \/ \E k \in WorkKeys : UiFails(k)
    \/ ResizeUi(300, 150)
    \/ RequestAllImageData({})
    \/ \E origin \in {"run", "timeout"} : HandleSelectionChangeBegins(origin)
    \/ \E k \in 1 .. MaxFrames, outcome \in {"resolves", "rejects"} :
          k <= Len(frames) /\ ScanResume(k, outcome, PngHeader, {})
    \/ ExternalExportComplete
    \/ ExternalExportFailed
    \/ NotifyMessage

InitAll ==
    /\ nodes = OrchDocument
    /\ live = NodeIds
    /\ selection = << 1 >>
    /\ scanResult = NoScan
    /\ InitRouter
    /\ InitTimers

SpecAll == InitAll /\ [][NextAll]_vars

NonBatchHandlers ==
    {"resize-ui", "request-all-image-data", "image-optimization-failed",
     "external-export-complete", "external-export-failed", "notify", "run", "timeout"}

CounterWriters ==
    {"optimize-images", "export-images-as-webp", "image-optimization-complete",
     "webp-export-complete"}

\* The step wrote the counter, respectively the fills or the size of a node.
WritesCounter ==
    \/ totalImagesToProcess' # totalImagesToProcess
    \/ processedImageCount' # processedImageCount

WritesDocument ==
    \/ \E n \in NodeIds : nodes'[n].fills # nodes[n].fills
    \/ PositionsOfType(emitted', "node.resize") # {}

\* C34 (frame): the handlers of resize-ui, request-all-image-data,
\* image-optimization-failed, external-export-complete, external-export-failed
\* and notify and every step of handleSelectionChange leave the counter and
\* the fills and size of every node as they are; only optimize-images,
\* export-images-as-webp, image-optimization-complete and webp-export-complete
\* write the counter, only image-optimization-complete writes the document.
C34_FrameOfHandlers ==
    [][/\ last'.handler \in NonBatchHandlers => ~WritesCounter /\ ~WritesDocument
       /\ WritesCounter => last'.handler \in CounterWriters
       /\ WritesDocument => last'.handler = "image-optimization-complete"]_vars

\* A download was confirmed while a batch of one was unanswered, after an
\* apply had written the frame's fill: counter and fill are as they were.
C34_Witness ==
    /\ last.handler = "external-export-complete"
    /\ totalImagesToProcess = 1
    /\ processedImageCount = 0
    /\ BagSize(uiPending) = 1
    /\ nodes[1].fills.list[1].imageHash = OptimizedHash("h1")

\* ------------------------------------------------------------------ C35
\* The step handled an image-optimization-complete that answers work with a
\* target format other than PNG and JPG.
CompletionOfOtherFormat ==
    /\ last'.handler = "image-optimization-complete"
    /\ \E k \in WorkKeys : k[2] \notin InPlaceFormats /\ uiPending'[k] < uiPending[k]

\* C35 (frame): image-optimization-complete with a target format other than
\* PNG or JPG has no effect: no node is looked up, no asset registered, no
\* fills changed, nothing posted or notified and the counter not incremented,
\* so this handler never takes a batch of such a format to completed = total.
C35_OtherFormatIgnored ==
    [][CompletionOfOtherFormat =>
          /\ last'.outcome = "ignored"
          /\ emitted' = << >>
          /\ frames' = frames
          /\ nodes' = nodes
          /\ live' = live
          /\ totalImagesToProcess' = totalImagesToProcess
          /\ processedImageCount' = processedImageCount]_vars

\* The only completion of an optimize-images batch sent with WebP was
\* handled: nothing is in flight and the counter stands at 0 of 1.
C35_Witness ==
    /\ last.handler = "image-optimization-complete"
    /\ last.outcome = "ignored"
    /\ BagSize(uiPending) = 0
    /\ frames = << >>
    /\ totalImagesToProcess = 1
    /\ processedImageCount = 0

\* ------------------------------------------------------------------ C36
\* The step finished the handling of an image-optimization-complete event
\* for PNG or JPG.
ApplyFinished ==
    /\ last'.handler = "image-optimization-complete"
    /\ last'.outcome \in {"applied", "rejected", "threw"}

NextTimers ==
    \/ \E sel \in DebounceSelections : SelectionChangeEvent(sel)
    \/ Tick
    \/ \E id \in 1 .. MaxTimers + 2, missing \in SUBSET Hashes : TimerFires(id, missing)
    \/ AwaitSettles

\* The debounce with a host that lets time pass, fires every due timeout and
\* settles every promise an execution awaits.
SpecDebounceFair ==
    /\ InitDebounce
    /\ [][NextTimers]_vars
    /\ WF_vars(Tick)
    /\ WF_vars(\E id \in 1 .. MaxTimers + 2, missing \in SUBSET Hashes :
                   TimerFires(id, missing))
    /\ \A k \in 1 .. MaxFrames : WF_vars(SettlesAt(k))

\* The selection-change messages of the last step.
SelectionChangeMessages ==
    { i \in 1 .. Len(emitted) : emitted[i].type = "selection-change" }

\* A timeout has just called handleSelectionChange, which read the selection
\* as it is now and posted the number of its candidates.
TimeoutScanReadsSelection ==
    /\ last.handler = "timeout"
    /\ last.step = "begin"
    /\ SelectionChangeMessages # {}
    /\ \A i \in SelectionChangeMessages :
          emitted[i].selectedNodeCount = Len(getUniqueImageCandidates(selection))

\* C37 (debounce liveness): unless selectionchange events go on for ever,
\* every pending timeout is followed by a scan that a timeout starts and that
\* reads the selection as it is when the timeout fires; every selection-change
\* message carries the candidate count of the selection at that time, so the
\* last one emitted carries the count of the final selection.
C37_DebounceLiveness ==
    /\ [](\A i \in SelectionChangeMessages :
             emitted[i].selectedNodeCount = Len(getUniqueImageCandidates(selection)))
    /\ \/ []<><<\E sel \in DebounceSelections : SelectionChangeEvent(sel)>>_vars
       \/ (timers # {}) ~> TimeoutScanReadsSelection

\* The timeout of a burst of two events ran the scan of the frame with one
\* image and no timeout is pending.
C37_Witness ==
    /\ TimeoutScanReadsSelection
    /\ selection = << 1 >>
    /\ hist.clean
    /\ hist.burst = 2
    /\ hist.runs = 1
    /\ timers = {}

=========================================================================
